---- MODULE Spec2Model ----
(***************************************************************************)
(* A model of serde-smile: the Smile encoder (src/src/ser) and decoder     *)
(* (src/src/de).  Bytes are integers 0..255.  Machine words wider than a   *)
(* byte are bit vectors: functions from the bit positions 0..w-1 (bit 0 is *)
(* the least significant) to {0,1}, so that 32- and 64-bit shifts, casts   *)
(* and wrap-around are the ones the machine performs.                      *)
(***************************************************************************)
EXTENDS Integers, Sequences, FiniteSets, TLC

VARIABLES
    pc,       \* position of the driver of the run
    builder,  \* ser::Builder: raw_binary, shared_strings, shared_properties
    ser,      \* ser::Serializer: raw_binary and the two string caches
    writer,   \* the bytes the Serializer has written to its writer
    de,       \* de::Deserializer: reader index, remaining_depth, caches
    input,    \* the value handed to the serialize call, or the call read back last
    sent,     \* what has been written and not yet decoded, oldest first
    result,   \* outcome of the last Deserializer call
    stack     \* the containers a decode is inside of, outermost first

vars == <<pc, builder, ser, writer, de, input, sent, result, stack>>

-----------------------------------------------------------------------------
(* Bounds of the model.                                                    *)

\* small signed integers -MaxSmall..MaxSmall are inputs of the integer codecs
MaxSmall == 40
\* byte strings of length 0..MaxBinLen are inputs of the 7-bit packer
MaxBinLen == 9
\* strings of byte length 1..MaxStrLen are inputs of the string codecs
MaxStrLen == 66
\* raw inputs of Deserializer::new have length 0..MaxHeaderLen
MaxHeaderLen == 5
\* number of serialize calls in one run of the session specification
MaxWrites == 3
\* documents nest arrays up to MaxNest deep
MaxNest == 130
\* number of decodes on one Deserializer
MaxDecodes == 2
\* a cache run interns up to MaxInterns distinct strings
MaxInterns == 1026
\* a visitor of a structured event asks for up to MaxEntries entries
MaxEntries == 3
\* the longest big-integer payload read
MaxBigLen == 18
\* a back-reference run reads up to MaxRefs distinct strings
MaxRefs == 260
\* a stream holds up to MaxValues values, and next is called MaxNexts times
MaxValues == 2
MaxNexts == 5
\* the readers run over inputs of length 0..MaxReadLen, which the BufRead
\* hands out in chunks of up to MaxChunk bytes
MaxReadLen == 4
MaxChunk == 2

-----------------------------------------------------------------------------
(* u8 arithmetic.                                                          *)

RECURSIVE BitOrN(_, _, _)
BitOrN(a, b, n) ==
    IF n = 0 THEN 0
    ELSE (IF a % 2 = 1 \/ b % 2 = 1 THEN 1 ELSE 0)
         + 2 * BitOrN(a \div 2, b \div 2, n - 1)

RECURSIVE BitAndN(_, _, _)
BitAndN(a, b, n) ==
    IF n = 0 THEN 0
    ELSE (IF a % 2 = 1 /\ b % 2 = 1 THEN 1 ELSE 0)
         + 2 * BitAndN(a \div 2, b \div 2, n - 1)

\* a | b, a & b, a << k, a >> k on u8 (the shifts drop the bits that leave)
Or8(a, b) == BitOrN(a, b, 8)
And8(a, b) == BitAndN(a, b, 8)
Shl8(a, k) == (a * (2 ^ k)) % 256
Shr8(a, k) == a \div (2 ^ k)

Byte == 0 .. 255

-----------------------------------------------------------------------------
(* Machine words as bit vectors.                                           *)

Word(w) == [0 .. (w - 1) -> {0, 1}]
Width(x) == Cardinality(DOMAIN x)
Zero(w) == [i \in 0 .. (w - 1) |-> 0]
BitOf(x, i) == IF i \in DOMAIN x THEN x[i] ELSE 0

\* x << k, x >> k (logical, unsigned), x >> k (arithmetic, signed)
Shl(x, k) == [i \in DOMAIN x |-> IF i >= k THEN x[i - k] ELSE 0]
Shr(x, k) == [i \in DOMAIN x |-> BitOf(x, i + k)]
Sar(x, k) == [i \in DOMAIN x |->
                 IF i + k \in DOMAIN x THEN x[i + k] ELSE x[Width(x) - 1]]
WXor(x, y) == [i \in DOMAIN x |-> (x[i] + y[i]) % 2]
WOr(x, y) == [i \in DOMAIN x |-> IF x[i] = 1 \/ y[i] = 1 THEN 1 ELSE 0]
WAnd(x, y) == [i \in DOMAIN x |-> IF x[i] = 1 /\ y[i] = 1 THEN 1 ELSE 0]
\* two's complement negation: ~x + 1
WNeg(x) == [i \in DOMAIN x |->
               IF \A j \in DOMAIN x : j < i => x[j] = 0 THEN x[i] ELSE 1 - x[i]]

\* casts: `as u8` keeps the low 8 bits; widening an unsigned word adds zero
\* bits, widening a signed word copies the sign bit; narrowing drops bits
AsU8(x) == x[0] + 2 * x[1] + 4 * x[2] + 8 * x[3]
           + 16 * x[4] + 32 * x[5] + 64 * x[6] + 128 * x[7]
FromU8(b, w) == [i \in 0 .. (w - 1) |-> IF i < 8 THEN (b \div (2 ^ i)) % 2 ELSE 0]
ZeroExtend(x, w) == [i \in 0 .. (w - 1) |-> BitOf(x, i)]
SignExtend(x, w) == [i \in 0 .. (w - 1) |->
                        IF i \in DOMAIN x THEN x[i] ELSE x[Width(x) - 1]]
Truncate(x, w) == [i \in 0 .. (w - 1) |-> x[i]]

\* unsigned x <= y
ULe(x, y) ==
    \/ x = y
    \/ \E i \in DOMAIN x :
          /\ x[i] < y[i]
          /\ \A j \in DOMAIN x : j > i => x[j] = y[j]

\* the word whose big-endian bytes are bs, zero-extended to w bits
RECURSIVE FromBytesBE(_, _)
FromBytesBE(bs, w) ==
    IF bs = <<>> THEN Zero(w)
    ELSE WOr(Shl(FromBytesBE(SubSeq(bs, 1, Len(bs) - 1), w), 8),
             FromU8(bs[Len(bs)], w))
U64(bs) == FromBytesBE(bs, 64)

\* words used as inputs: a small signed number, 2^k, 2^k - 1, 2^k + 2^j
FromInt(n, w) ==
    IF n >= 0 THEN [i \in 0 .. (w - 1) |-> IF i < 30 THEN (n \div (2 ^ i)) % 2 ELSE 0]
    ELSE WNeg([i \in 0 .. (w - 1) |-> IF i < 30 THEN ((-n) \div (2 ^ i)) % 2 ELSE 0])
OneHot(k, w) == [i \in 0 .. (w - 1) |-> IF i = k THEN 1 ELSE 0]
LowMask(k, w) == [i \in 0 .. (w - 1) |-> IF i < k THEN 1 ELSE 0]
TwoHot(k, j, w) == [i \in 0 .. (w - 1) |-> IF i = k \/ i = j THEN 1 ELSE 0]

-----------------------------------------------------------------------------
(* Option and Result.                                                      *)

None == [some |-> FALSE]
Some(x) == [some |-> TRUE, v |-> x]
Ok(x) == [ok |-> TRUE, v |-> x]
Err(kind) == [ok |-> FALSE, err |-> kind]

-----------------------------------------------------------------------------
(* de/read.rs: SliceRead, a slice and an index into it.                    *)

Reader(slice, index) == [slice |-> slice, index |-> index]

\* Read::next: the byte at the index, advancing past it, or None at the end
SliceRead_next(r) ==
    IF r.index < Len(r.slice)
    THEN [r |-> [r EXCEPT !.index = @ + 1], v |-> Some(r.slice[r.index + 1])]
    ELSE [r |-> r, v |-> None]

\* Read::peek
SliceRead_peek(r) ==
    IF r.index < Len(r.slice) THEN Some(r.slice[r.index + 1]) ELSE None

\* Read::read and Read::read_mut: the next n bytes, or None if fewer remain
SliceRead_read(r, n) ==
    IF n <= Len(r.slice) - r.index
    THEN [r |-> [r EXCEPT !.index = @ + n],
          v |-> Some(SubSeq(r.slice, r.index + 1, r.index + n))]
    ELSE [r |-> r, v |-> None]

\* Read::read_until: the bytes before the first `end`, consuming `end` too
SliceRead_read_until(r, end) ==
    LET hits == {i \in (r.index + 1) .. Len(r.slice) : r.slice[i] = end}
    IN  IF hits = {} THEN [r |-> r, v |-> None]
        ELSE LET at == CHOOSE i \in hits : \A j \in hits : i <= j
             IN  [r |-> [r EXCEPT !.index = at],
                  v |-> Some(SubSeq(r.slice, r.index + 1, at - 1))]

-----------------------------------------------------------------------------
(* de/read.rs: MutSliceRead, the rest of a mutable slice, and IoRead, a    *)
(* BufRead and a buffer.  The BufRead is the bytes it has left; fill_buf   *)
(* hands out at most `chunk` of them at a time.  Each operation yields the *)
(* reader after it and what it returned.                                   *)

Drop(q, n) == SubSeq(q, n + 1, Len(q))
Take(q, n) == SubSeq(q, 1, n)

\* memchr: the offset of the first `end` in q, or None
memchr(end, q) ==
    IF \E k \in 1 .. Len(q) : q[k] = end
    THEN Some((CHOOSE k \in 1 .. Len(q) :
                   q[k] = end /\ \A j \in 1 .. (k - 1) : q[j] # end) - 1)
    ELSE None

\* SliceRead::consume
SliceRead_consume(r) == [r EXCEPT !.index = @ + 1]

MutSliceRead_next(r) ==
    IF r # <<>> THEN [r |-> Tail(r), v |-> Some(Head(r))] ELSE [r |-> r, v |-> None]

MutSliceRead_peek(r) == IF r # <<>> THEN Some(Head(r)) ELSE None

MutSliceRead_consume(r) == Tail(r)

\* MutSliceRead::read and read_mut
MutSliceRead_read(r, n) ==
    IF n <= Len(r) THEN [r |-> Drop(r, n), v |-> Some(Take(r, n))]
    ELSE [r |-> r, v |-> None]

MutSliceRead_read_until(r, end) ==
    LET found(at) ==
            IF at.some
            THEN [r |-> Drop(r, at.v + 1), v |-> Some(Take(r, at.v))]
            ELSE [r |-> r, v |-> None]
    IN  found(memchr(end, r))

IoRead(reader, buf) == [reader |-> reader, buf |-> buf]

\* BufRead::fill_buf: the bytes at hand, none only at the end
BufRead_fill_buf(reader, chunk) ==
    Take(reader, IF Len(reader) < chunk THEN Len(reader) ELSE chunk)

\* IoRead::fill_buf: the loop that moves n bytes into buf
RECURSIVE IoRead_fill_buf_loop(_, _, _)
IoRead_fill_buf_loop(io, remaining, chunk) ==
    LET buf == BufRead_fill_buf(io.reader, chunk)
        len == IF remaining < Len(buf) THEN remaining ELSE Len(buf)
    IN  IF remaining = 0 THEN [r |-> io, v |-> TRUE]
        ELSE IF buf = <<>> THEN [r |-> io, v |-> FALSE]
        ELSE IoRead_fill_buf_loop(
                 IoRead(Drop(io.reader, len), io.buf \o Take(buf, len)),
                 remaining - len, chunk)

IoRead_fill_buf(io, n, chunk) ==
    IoRead_fill_buf_loop(IoRead(io.reader, <<>>), n, chunk)

IoRead_peek(io, chunk) ==
    LET buf == BufRead_fill_buf(io.reader, chunk)
    IN  IF buf = <<>> THEN None ELSE Some(buf[1])

IoRead_consume(io) == IoRead(Drop(io.reader, 1), io.buf)

IoRead_next(io, chunk) ==
    LET r == IoRead_peek(io, chunk)
    IN  IF r.some THEN [r |-> IoRead_consume(io), v |-> r] ELSE [r |-> io, v |-> r]

\* an IoRead::read that hands out its buffer even when the input ran out
IoRead_read_short(io, n, chunk) ==
    LET filled(f) == [r |-> f.r, v |-> Some(f.r.buf)]
    IN  filled(IoRead_fill_buf(io, n, chunk))

\* IoRead::read and read_mut
IoRead_read(io, n, chunk) ==
    LET filled(f) == IF f.v THEN [r |-> f.r, v |-> Some(f.r.buf)]
                     ELSE [r |-> f.r, v |-> None]
    IN  filled(IoRead_fill_buf(io, n, chunk))

RECURSIVE IoRead_read_until_loop(_, _, _)
IoRead_read_until_loop(io, end, chunk) ==
    LET buf == BufRead_fill_buf(io.reader, chunk)
        found(at) ==
            IF at.some
            THEN [r |-> IoRead(Drop(io.reader, at.v + 1), io.buf \o Take(buf, at.v)),
                  v |-> Some(io.buf \o Take(buf, at.v))]
            ELSE IoRead_read_until_loop(
                     IoRead(Drop(io.reader, Len(buf)), io.buf \o buf), end, chunk)
    IN  IF buf = <<>> THEN [r |-> io, v |-> None]
        ELSE found(memchr(end, buf))

IoRead_read_until(io, end, chunk) ==
    IoRead_read_until_loop(IoRead(io.reader, <<>>), end, chunk)

-----------------------------------------------------------------------------
(* VInt: ser/mod.rs serialize_vint, de/mod.rs parse_vint.                  *)

\* (v >> k) as u8
ShrU8(v, k) == AsU8(Shr(v, k))

InRange(v, lo, hi) == ULe(U64(lo), v) /\ ULe(v, U64(hi))

\* the match of serialize_vint: the bytes of buf[..bytes] before the
\* terminator bit is set
serialize_vint_buf(v) ==
    IF InRange(v, <<0>>, <<63>>) THEN
        <<AsU8(v)>>
    ELSE IF InRange(v, <<64>>, <<31, 255>>) THEN
        <<ShrU8(v, 6), And8(AsU8(v), 63)>>
    ELSE IF InRange(v, <<32, 0>>, <<15, 255, 255>>) THEN
        <<ShrU8(v, 13), And8(ShrU8(v, 6), 127), And8(AsU8(v), 63)>>
    ELSE IF InRange(v, <<16, 0, 0>>, <<7, 255, 255, 255>>) THEN
        <<ShrU8(v, 20), And8(ShrU8(v, 13), 127), And8(ShrU8(v, 6), 127),
          And8(AsU8(v), 63)>>
    ELSE IF InRange(v, <<8, 0, 0, 0>>, <<3, 255, 255, 255, 255>>) THEN
        <<ShrU8(v, 27), And8(ShrU8(v, 20), 127), And8(ShrU8(v, 13), 127),
          And8(ShrU8(v, 6), 127), And8(AsU8(v), 63)>>
    ELSE IF InRange(v, <<4, 0, 0, 0, 0>>, <<1, 255, 255, 255, 255, 255>>) THEN
        <<ShrU8(v, 34), And8(ShrU8(v, 27), 127), And8(ShrU8(v, 20), 127),
          And8(ShrU8(v, 13), 127), And8(ShrU8(v, 6), 127), And8(AsU8(v), 63)>>
    ELSE IF InRange(v, <<2, 0, 0, 0, 0, 0>>, <<255, 255, 255, 255, 255, 255>>) THEN
        <<ShrU8(v, 41), And8(ShrU8(v, 34), 127), And8(ShrU8(v, 27), 127),
          And8(ShrU8(v, 20), 127), And8(ShrU8(v, 13), 127),
          And8(ShrU8(v, 6), 127), And8(AsU8(v), 63)>>
    ELSE IF InRange(v, <<1, 0, 0, 0, 0, 0, 0>>,
                       <<127, 255, 255, 255, 255, 255, 255>>) THEN
        <<ShrU8(v, 48), And8(ShrU8(v, 41), 127), And8(ShrU8(v, 34), 127),
          And8(ShrU8(v, 27), 127), And8(ShrU8(v, 20), 127),
          And8(ShrU8(v, 13), 127), And8(ShrU8(v, 6), 127), And8(AsU8(v), 63)>>
    ELSE IF InRange(v, <<128, 0, 0, 0, 0, 0, 0>>,
                       <<63, 255, 255, 255, 255, 255, 255, 255>>) THEN
        <<ShrU8(v, 55), And8(ShrU8(v, 48), 127), And8(ShrU8(v, 41), 127),
          And8(ShrU8(v, 34), 127), And8(ShrU8(v, 27), 127),
          And8(ShrU8(v, 20), 127), And8(ShrU8(v, 13), 127),
          And8(ShrU8(v, 6), 127), And8(AsU8(v), 63)>>
    ELSE
        <<ShrU8(v, 62), And8(ShrU8(v, 55), 127), And8(ShrU8(v, 48), 127),
          And8(ShrU8(v, 41), 127), And8(ShrU8(v, 34), 127),
          And8(ShrU8(v, 27), 127), And8(ShrU8(v, 20), 127),
          And8(ShrU8(v, 13), 127), And8(ShrU8(v, 6), 127), And8(AsU8(v), 63)>>

\* serialize_vint without the terminator bit on the last byte
serialize_vint_noterm(v) ==
    serialize_vint_buf(v)

\* serialize_vint: buf[bytes - 1] |= 0x80, then the bytes are written
serialize_vint(v) ==
    LET terminated(buf) == [buf EXCEPT ![Len(buf)] = Or8(@, 128)]
    IN  terminated(serialize_vint_buf(v))

\* parse_vint: at most byte_limit bytes; a byte with the high bit set ends
\* the number and carries 6 bits, every other byte carries 7
RECURSIVE parse_vint_loop(_, _, _)
parse_vint_loop(r, left, value) ==
    IF left = 0 THEN [r |-> r, res |-> Err("UnterminatedVint")]
    ELSE LET nx == SliceRead_next(r)
         IN  IF ~nx.v.some THEN [r |-> nx.r, res |-> Err("EofWhileParsingValue")]
             ELSE LET byte == nx.v.v
                      end == And8(byte, 128) # 0
                      shift == IF end THEN 6 ELSE 7
                      next == WOr(Shl(value, shift), FromU8(And8(byte, 127), 64))
                  IN  IF end THEN [r |-> nx.r, res |-> Ok(next)]
                      ELSE parse_vint_loop(nx.r, left - 1, next)

parse_vint(r, byte_limit) == parse_vint_loop(r, byte_limit, Zero(64))

-----------------------------------------------------------------------------
(* ZigZag and the integer tokens: ser/mod.rs serialize_i32, serialize_i64, *)
(* de/mod.rs zigzag_i32, zigzag_i64.                                       *)

\* ((v << 1) ^ (v >> 31)) as u32 as u64, v an i32
zigzag_of_i32(v) == ZeroExtend(WXor(Shl(v, 1), Sar(v, 31)), 64)

\* ((v << 1) ^ (v >> 63)) as u64, v an i64
zigzag_of_i64(v) == WXor(Shl(v, 1), Sar(v, 63))

\* serialize_i32: the bytes written for the i32 v
serialize_i32(v) ==
    LET zigzag == zigzag_of_i32(v)
    IN  IF ULe(zigzag, U64(<<32>>))
        THEN <<192 + AsU8(zigzag)>>
        ELSE <<36>> \o serialize_vint(zigzag)

\* i32::try_from(v) succeeds iff the i64 v is the sign extension of its low half
FitsI32(v) == SignExtend(Truncate(v, 32), 64) = v

\* serialize_i64: the bytes written for the i64 v
serialize_i64(v) ==
    IF FitsI32(v) THEN serialize_i32(Truncate(v, 32))
    ELSE <<37>> \o serialize_vint(zigzag_of_i64(v))

\* zigzag_i32(v: u32) = ((v >> 1) as i32) ^ (-((v & 1) as i32))
zigzag_i32(v) == WXor(Shr(v, 1), WNeg(WAnd(v, OneHot(0, 32))))

\* zigzag_i64(v: u64) = ((v >> 1) as i64) ^ (-((v & 1) as i64))
zigzag_i64(v) == WXor(Shr(v, 1), WNeg(WAnd(v, OneHot(0, 64))))

-----------------------------------------------------------------------------
(* Floats: ser/mod.rs serialize_f32, serialize_f64; the bit pattern is     *)
(* v.to_bits().to_le(), the pattern itself on a little-endian target.      *)

\* (bits >> k) as u8 & 0x7f
Septet(bits, k) == And8(ShrU8(bits, k), 127)

serialize_f32(bits) ==
    <<40, Septet(bits, 0), Septet(bits, 7), Septet(bits, 14), Septet(bits, 21),
      Septet(bits, 28)>>

serialize_f64(bits) ==
    <<41, Septet(bits, 0), Septet(bits, 7), Septet(bits, 14), Septet(bits, 21),
      Septet(bits, 28), Septet(bits, 35), Septet(bits, 42), Septet(bits, 49),
      Septet(bits, 56), Septet(bits, 63)>>

\* (buf[0] as uN) << s0 | (buf[1] as uN) << s1 | ..., shifts as listed
RECURSIVE ShiftIn(_, _, _)
ShiftIn(buf, shifts, w) ==
    IF buf = <<>> THEN Zero(w)
    ELSE WOr(Shl(FromU8(Head(buf), w), Head(shifts)),
             ShiftIn(Tail(buf), Tail(shifts), w))

-----------------------------------------------------------------------------
(* 7-bit packing: ser/mod.rs serialize_7_bit_binary.                       *)

\* one chunk of chunks_exact(7): seven bytes become eight septets
pack_chunk(c) ==
    <<Shr8(c[1], 1),
      And8(Or8(Shl8(c[1], 6), Shr8(c[2], 2)), 127),
      And8(Or8(Shl8(c[2], 5), Shr8(c[3], 3)), 127),
      And8(Or8(Shl8(c[3], 4), Shr8(c[4], 4)), 127),
      And8(Or8(Shl8(c[4], 3), Shr8(c[5], 5)), 127),
      And8(Or8(Shl8(c[5], 2), Shr8(c[6], 6)), 127),
      And8(Or8(Shl8(c[6], 1), Shr8(c[7], 7)), 127),
      And8(c[7], 127)>>

RECURSIVE pack_chunks(_)
pack_chunks(v) ==
    IF Len(v) < 7 THEN <<>>
    ELSE pack_chunk(SubSeq(v, 1, 7)) \o pack_chunks(SubSeq(v, 8, Len(v)))

\* it.remainder(): what chunks_exact(7) leaves over
remainder_of(v) == SubSeq(v, Len(v) - (Len(v) % 7) + 1, Len(v))

\* the loop over the remainder, from index i on: buf[i] |= b >> (i + 1);
\* buf[i + 1] = (b << (6 - i)) & 0x7f   (buf is 0-based in the source)
RECURSIVE pack_remainder(_, _, _)
pack_remainder(buf, rem, i) ==
    IF i >= Len(rem) THEN buf
    ELSE LET b == rem[i + 1]
             b1 == [buf EXCEPT ![i + 1] = Or8(@, Shr8(b, i + 1))]
             b2 == [b1 EXCEPT ![i + 2] = And8(Shl8(b, 6 - i), 127)]
         IN  pack_remainder(b2, rem, i + 1)

\* serialize_7_bit_binary: VInt(len), the packed chunks, then
\* buf[..remainder.len() + 1]
serialize_7_bit_binary(v) ==
    LET rem == remainder_of(v)
        buf == pack_remainder(<<0, 0, 0, 0, 0, 0, 0>>, rem, 0)
    IN  serialize_vint(FromInt(Len(v), 64))
        \o pack_chunks(v)
        \o SubSeq(buf, 1, Len(rem) + 1)

-----------------------------------------------------------------------------
(* 7-bit unpacking: de/mod.rs parse_7_bit_binary.                          *)

\* a u64 below 2^30 as a number
RECURSIVE NatOfBits(_, _)
NatOfBits(x, i) == IF i < 0 THEN 0 ELSE x[i] * (2 ^ i) + NatOfBits(x, i - 1)
ToNat(x) == NatOfBits(x, 29)
IsSmall(x) == \A i \in DOMAIN x : i >= 30 => x[i] = 0

\* buf[at] (0-based) and buf with buf[at] = b
At(buf, at) == buf[at + 1]
Put(buf, at, b) == [buf EXCEPT ![at + 1] = b]

\* one full group, steps j..6 of
\*   buf[out_base + j] = buf[in_base + j] << (j + 1) | buf[in_base + j + 1] >> (6 - j)
\* done in place and in order
RECURSIVE unpack_chunk(_, _, _, _)
unpack_chunk(buf, in_base, out_base, j) ==
    IF j > 6 THEN buf
    ELSE unpack_chunk(
             Put(buf, out_base + j,
                 Or8(Shl8(At(buf, in_base + j), j + 1),
                     Shr8(At(buf, in_base + j + 1), 6 - j))),
             in_base, out_base, j + 1)

\* the loop over the full groups, `left` of them still to do
RECURSIVE unpack_chunks(_, _, _, _)
unpack_chunks(buf, in_base, out_base, left) ==
    IF left = 0 THEN buf
    ELSE unpack_chunks(unpack_chunk(buf, in_base, out_base, 0),
                       in_base + 8, out_base + 7, left - 1)

\* the loop over the partial group, steps i..remainder-1
RECURSIVE unpack_remainder(_, _, _, _, _)
unpack_remainder(buf, in_base, out_base, remainder, i) ==
    IF i >= remainder THEN buf
    ELSE unpack_remainder(
             Put(buf, out_base + i,
                 Or8(Shl8(At(buf, in_base + i), i + 1),
                     Shr8(At(buf, in_base + i + 1), 6 - i))),
             in_base, out_base, remainder, i + 1)

\* the body of parse_7_bit_binary once the encoded bytes are in buf
unpack_7_bit(buf, raw_len) ==
    LET chunks == raw_len \div 7
        remainder == raw_len % 7
        b1 == unpack_chunks(buf, 0, 0, chunks)
        in_base == 8 * chunks
        out_base == 7 * chunks
        \* the last byte is right-aligned: buf[in_base + remainder] <<= 7 - remainder
        b2 == IF remainder > 0
              THEN Put(b1, in_base + remainder,
                       Shl8(At(b1, in_base + remainder), 7 - remainder))
              ELSE b1
        b3 == IF remainder > 0
              THEN unpack_remainder(b2, in_base, out_base, remainder, 0)
              ELSE b2
    IN  SubSeq(b3, 1, raw_len)

\* chunks.checked_mul(8).and_then(checked_add(encoded_remainder)) overflows
\* u64 iff raw_len / 7 >= 2^61, that is raw_len >= 0xE000_0000_0000_0000
EncodedLenOverflows(raw_len) == ULe(U64(<<224, 0, 0, 0, 0, 0, 0, 0>>), raw_len)

\* parse_7_bit_binary: [r, res]; a raw_len of 2^30 or more asks for more
\* bytes than any slice of the model holds, so read_mut returns None
parse_7_bit_binary(r) ==
    LET unpacked(rd, raw_len) ==
            IF ~rd.v.some
            THEN [r |-> rd.r, res |-> Err("EofWhileParsingValue")]
            ELSE [r |-> rd.r, res |-> Ok(unpack_7_bit(rd.v.v, raw_len))]
        encoded_len(raw_len) ==
            (raw_len \div 7) * 8
            + (IF raw_len % 7 = 0 THEN 0 ELSE (raw_len % 7) + 1)
        read(r1, raw_len) ==
            unpacked(SliceRead_read(r1, encoded_len(raw_len)), raw_len)
        with(vint) ==
            IF ~vint.res.ok THEN vint
            ELSE IF EncodedLenOverflows(vint.res.v)
                 THEN [r |-> vint.r, res |-> Err("BufferLengthOverflow")]
            ELSE IF ~IsSmall(vint.res.v)
                 THEN [r |-> vint.r, res |-> Err("EofWhileParsingValue")]
            ELSE read(vint.r, ToNat(vint.res.v))
    IN  with(parse_vint(r, 10))

-----------------------------------------------------------------------------
(* Strings are UTF-8 byte sequences.                                       *)

\* str::is_ascii
is_ascii(s) == \A i \in 1 .. Len(s) : s[i] < 128

IsCont(b) == b >= 128 /\ b <= 191

\* str::from_utf8 succeeds: well-formed UTF-8 (no overlong forms, no
\* surrogates, nothing above U+10FFFF)
RECURSIVE IsUtf8(_)
IsUtf8(bs) ==
    IF bs = <<>> THEN TRUE
    ELSE LET b == bs[1]
             n == Len(bs)
             rest(k) == SubSeq(bs, k + 1, n)
         IN  IF b < 128 THEN IsUtf8(rest(1))
             ELSE IF b >= 194 /\ b <= 223
                  THEN n >= 2 /\ IsCont(bs[2]) /\ IsUtf8(rest(2))
             ELSE IF b >= 224 /\ b <= 239
                  THEN /\ n >= 3
                       /\ IsCont(bs[2]) /\ IsCont(bs[3])
                       /\ (b = 224 => bs[2] >= 160)
                       /\ (b = 237 => bs[2] <= 159)
                       /\ IsUtf8(rest(3))
             ELSE IF b >= 240 /\ b <= 244
                  THEN /\ n >= 4
                       /\ IsCont(bs[2]) /\ IsCont(bs[3]) /\ IsCont(bs[4])
                       /\ (b = 240 => bs[2] >= 144)
                       /\ (b = 244 => bs[2] <= 143)
                       /\ IsUtf8(rest(4))
             ELSE FALSE

-----------------------------------------------------------------------------
(* The string caches: ser/string_cache.rs (a map from string to index) and *)
(* de/string_cache.rs (a vector of strings).                               *)

LIMIT == 1024

\* StringCache::new on either side: no entries
EmptyMap == [x \in {} |-> 0]
EmptyVec == <<>>

\* an intern that clears only past LIMIT
ser_intern_late(map, s) ==
    LET m == IF Cardinality(DOMAIN map) > LIMIT THEN EmptyMap ELSE map
        id == Cardinality(DOMAIN m)
    IN  [x \in (DOMAIN m) \cup {s} |-> IF x = s THEN id ELSE m[x]]

\* ser StringCache::intern: clear at LIMIT, then map.insert(s, map.len())
ser_intern(map, s) ==
    LET m == IF Cardinality(DOMAIN map) >= LIMIT THEN EmptyMap ELSE map
        id == Cardinality(DOMAIN m)
    IN  [x \in (DOMAIN m) \cup {s} |-> IF x = s THEN id ELSE m[x]]

\* ser StringCache::get
ser_get(map, s) == IF s \in DOMAIN map THEN Some(map[s]) ELSE None

\* de StringCache::intern: clear at LIMIT, then vec.push(s)
de_intern(vec, s) ==
    LET v == IF Len(vec) >= LIMIT THEN EmptyVec ELSE vec
    IN  Append(v, s)

\* a get that wraps an index past the end around to the entries there are
de_get_wrapping(vec, reference) ==
    IF Len(vec) > 0 THEN Some(vec[(reference % Len(vec)) + 1]) ELSE None

\* de StringCache::get: vec.get(reference)
de_get(vec, reference) ==
    IF reference < Len(vec) THEN Some(vec[reference + 1]) ELSE None

-----------------------------------------------------------------------------
(* ser/mod.rs: strings and byte strings.  Each operator yields the         *)
(* Serializer after the call and the bytes the call wrote.                 *)

Wrote(s, bytes, done) == [ser |-> s, out |-> bytes, done |-> done]

\* serialize_shared_str: done = TRUE iff a back-reference was written
serialize_shared_str(s, v) ==
    IF ~s.shared_strings.some THEN Wrote(s, <<>>, FALSE)
    ELSE IF Len(v) > 64 THEN Wrote(s, <<>>, FALSE)
    ELSE LET hit == ser_get(s.shared_strings.v, v)
         IN  IF hit.some
             THEN LET backref == hit.v
                  IN  IF backref <= 30
                      THEN Wrote(s, <<(backref % 256) + 1>>, TRUE)
                      ELSE Wrote(s, <<Or8(236, (backref \div 256) % 256),
                                      backref % 256>>, TRUE)
             ELSE Wrote([s EXCEPT !.shared_strings =
                                      Some(ser_intern(s.shared_strings.v, v))],
                        <<>>, FALSE)

\* serialize_str
serialize_str(s, v) ==
    IF v = <<>> THEN Wrote(s, <<32>>, TRUE)
    ELSE LET sh == serialize_shared_str(s, v)
             tiny == IF is_ascii(v) THEN 64 ELSE 128
             short == IF is_ascii(v) THEN 96 ELSE 160
             long == IF is_ascii(v) THEN 224 ELSE 228
         IN  IF sh.done THEN sh
             ELSE IF Len(v) <= 32
                  THEN Wrote(sh.ser, <<Or8(tiny, (Len(v) % 256) - 1)>> \o v, TRUE)
             ELSE IF Len(v) <= 64
                  THEN Wrote(sh.ser, <<Or8(short, (Len(v) % 256) - 33)>> \o v, TRUE)
             ELSE Wrote(sh.ser, <<long>> \o v \o <<252>>, TRUE)

\* serialize_bytes
serialize_bytes(s, v) ==
    IF s.raw_binary
    THEN Wrote(s, <<253>> \o serialize_vint(FromInt(Len(v), 64)) \o v, TRUE)
    ELSE Wrote(s, <<232>> \o serialize_7_bit_binary(v), TRUE)

-----------------------------------------------------------------------------
(* ser/mod.rs: unsigned and 128-bit integers, and the big integer token.   *)

\* v.to_be_bytes(): the bytes of the word v, most significant first
to_be_bytes(v) ==
    [k \in 1 .. (Width(v) \div 8) |->
        LET lo == Width(v) - 8 * k
        IN  v[lo] + 2 * v[lo + 1] + 4 * v[lo + 2] + 8 * v[lo + 3]
            + 16 * v[lo + 4] + 32 * v[lo + 5] + 64 * v[lo + 6] + 128 * v[lo + 7]]

\* i64::try_from(v) for an unsigned v: Some(v as i64) if v <= i64::MAX
i64_try_from_unsigned(v) ==
    IF \A i \in DOMAIN v : i >= 63 => v[i] = 0
    THEN Some(Truncate(v, 64))
    ELSE None

\* serialize_big_integer
serialize_big_integer(v) == <<38>> \o serialize_7_bit_binary(v)

\* serialize_u64
serialize_u64(v) ==
    LET fits == i64_try_from_unsigned(v)
    IN  IF fits.some THEN serialize_i64(fits.v)
        ELSE serialize_big_integer(to_be_bytes(v))

\* serialize_u128
serialize_u128(v) ==
    LET fits == i64_try_from_unsigned(v)
    IN  IF fits.some THEN serialize_i64(fits.v)
        ELSE serialize_big_integer(to_be_bytes(v))

-----------------------------------------------------------------------------
(* ser/key_serializer.rs: map keys.                                        *)

\* serialize_shared_property: done = TRUE iff a back-reference was written
serialize_shared_property(s, v) ==
    IF ~s.shared_properties.some THEN Wrote(s, <<>>, FALSE)
    ELSE IF Len(v) > 64 THEN Wrote(s, <<>>, FALSE)
    ELSE LET hit == ser_get(s.shared_properties.v, v)
         IN  IF hit.some
             THEN LET backref == hit.v
                  IN  IF backref <= 63
                      THEN Wrote(s, <<64 + (backref % 256)>>, TRUE)
                      ELSE Wrote(s, <<Or8(48, (backref \div 256) % 256),
                                      backref % 256>>, TRUE)
             ELSE Wrote([s EXCEPT !.shared_properties =
                                      Some(ser_intern(s.shared_properties.v, v))],
                        <<>>, FALSE)

\* serialize_maybe_static_str with the non-ASCII short length off by one
serialize_maybe_static_str_off(s, v) ==
    IF v = <<>> THEN Wrote(s, <<32>>, TRUE)
    ELSE LET sh == serialize_shared_property(s, v)
         IN  IF sh.done THEN sh
             ELSE IF Len(v) <= 64 /\ is_ascii(v)
                  THEN Wrote(sh.ser, <<128 + (Len(v) % 256) - 1>> \o v, TRUE)
             ELSE IF Len(v) < 57
                  THEN Wrote(sh.ser, <<192 + (Len(v) % 256) - 1>> \o v, TRUE)
             ELSE Wrote(sh.ser, <<52>> \o v \o <<252>>, TRUE)

\* serialize_maybe_static_str
serialize_maybe_static_str(s, v) ==
    IF v = <<>> THEN Wrote(s, <<32>>, TRUE)
    ELSE LET sh == serialize_shared_property(s, v)
         IN  IF sh.done THEN sh
             ELSE IF Len(v) <= 64 /\ is_ascii(v)
                  THEN Wrote(sh.ser, <<128 + (Len(v) % 256) - 1>> \o v, TRUE)
             ELSE IF Len(v) < 57
                  THEN Wrote(sh.ser, <<192 + (Len(v) % 256) - 2>> \o v, TRUE)
             ELSE Wrote(sh.ser, <<52>> \o v \o <<252>>, TRUE)

-----------------------------------------------------------------------------
(* ser/mod.rs: structs, and value/big_integer.rs and value/big_decimal.rs, *)
(* which serialize themselves as structs with reserved names.              *)

\* "\0SmileBigInteger"
BigInteger_STRUCT_NAME ==
    <<0, 83, 109, 105, 108, 101, 66, 105, 103, 73, 110, 116,
      101, 103, 101, 114>>

\* "\0SmileBigIntegerField"
BigInteger_FIELD_NAME ==
    <<0, 83, 109, 105, 108, 101, 66, 105, 103, 73, 110, 116,
      101, 103, 101, 114, 70, 105, 101, 108, 100>>

\* "\0SmileBigDecimal"
BigDecimal_STRUCT_NAME ==
    <<0, 83, 109, 105, 108, 101, 66, 105, 103, 68, 101, 99,
      105, 109, 97, 108>>

\* "\0SmileBigDecimalScale"
BigDecimal_SCALE_FIELD_NAME ==
    <<0, 83, 109, 105, 108, 101, 66, 105, 103, 68, 101, 99,
      105, 109, 97, 108, 83, 99, 97, 108, 101>>

\* "\0SmileBigDecimalValue"
BigDecimal_VALUE_FIELD_NAME ==
    <<0, 83, 109, 105, 108, 101, 66, 105, 103, 68, 101, 99,
      105, 109, 97, 108, 86, 97, 108, 117, 101>>

\* one call after another on the same Serializer and writer
Then(w, next) == [ser |-> next.ser, out |-> w.out \o next.out, done |-> TRUE]

\* serialize_map
serialize_map(s) == Wrote(s, <<250>>, TRUE)

\* serialize_struct
serialize_struct(s, name, len) == serialize_map(s)

\* serialize_static_key
serialize_static_key(s, key) == serialize_maybe_static_str(s, key)

\* SerializeStruct::serialize_field for a value that is a byte string
serialize_field_bytes(s, key, value) ==
    LET value_of(k) == Then(k, serialize_bytes(k.ser, value))
    IN  value_of(serialize_static_key(s, key))

\* SerializeStruct::serialize_field for a value that is an i32
serialize_field_i32(s, key, value) ==
    LET value_of(k) == Then(k, Wrote(k.ser, serialize_i32(value), TRUE))
    IN  value_of(serialize_static_key(s, key))

\* SerializeStruct::end, which is SerializeMap::end
SerializeStruct_end(s) == Wrote(s, <<251>>, TRUE)

\* <BigInteger as Serialize>::serialize
BigInteger_serialize(s, bytes) ==
    LET ended(f) == Then(f, SerializeStruct_end(f.ser))
        field(st) ==
            ended(Then(st, serialize_field_bytes(st.ser, BigInteger_FIELD_NAME,
                                                 bytes)))
    IN  field(serialize_struct(s, BigInteger_STRUCT_NAME, 1))

\* <BigDecimal as Serialize>::serialize
BigDecimal_serialize(s, scale, bytes) ==
    LET ended(f) == Then(f, SerializeStruct_end(f.ser))
        value(f) ==
            ended(Then(f, serialize_field_bytes(f.ser, BigDecimal_VALUE_FIELD_NAME,
                                                bytes)))
        field(st) ==
            value(Then(st, serialize_field_i32(st.ser, BigDecimal_SCALE_FIELD_NAME,
                                               scale)))
    IN  field(serialize_struct(s, BigDecimal_STRUCT_NAME, 2))

-----------------------------------------------------------------------------
(* ser/mod.rs: sequences and enum variants, and the enum of test/enums.rs  *)
(* with the structs the tests compare it to, serialized as their derived   *)
(* Serialize implementations do.                                           *)

\* serialize_bool
serialize_bool(v) == IF v THEN <<35>> ELSE <<34>>

\* serialize_unit_variant
serialize_unit_variant(s, variant) == serialize_str(s, variant)

\* serialize_seq, and serialize_tuple which calls it
serialize_seq(s) == Wrote(s, <<248>>, TRUE)

\* SerializeSeq::end, which SerializeTuple::end calls
SerializeSeq_end(s) == Wrote(s, <<249>>, TRUE)

\* serialize_newtype_variant of an i32
serialize_newtype_variant(s, variant, value) ==
    LET ended(f) == Then(f, SerializeStruct_end(f.ser))
        field(m) == ended(Then(m, serialize_field_i32(m.ser, variant, value)))
    IN  field(serialize_map(s))

\* serialize_tuple_variant
serialize_tuple_variant(s, variant, len) ==
    LET seq(k) == Then(k, serialize_seq(k.ser))
        key(m) == seq(Then(m, serialize_static_key(m.ser, variant)))
    IN  key(serialize_map(s))

\* SerializeTupleVariant::end
SerializeTupleVariant_end(s) == Wrote(s, <<249, 251>>, TRUE)

\* serialize_struct_variant
serialize_struct_variant(s, variant, len) ==
    LET map(k) == Then(k, serialize_map(k.ser))
        key(m) == map(Then(m, serialize_static_key(m.ser, variant)))
    IN  key(serialize_map(s))

\* SerializeStructVariant::end
SerializeStructVariant_end(s) == Wrote(s, <<251, 251>>, TRUE)

\* one call a derived Serialize implementation makes on the Serializer
Call(s, c) ==
    CASE c.f = "serialize_struct" -> serialize_struct(s, c.name, c.len)
      [] c.f = "serialize_static_key" -> serialize_static_key(s, c.key)
      [] c.f = "serialize_tuple" -> serialize_seq(s)
      [] c.f = "SerializeTuple::end" -> SerializeSeq_end(s)
      [] c.f = "SerializeStruct::end" -> SerializeStruct_end(s)
      [] c.f = "serialize_tuple_variant" ->
             serialize_tuple_variant(s, c.variant, c.len)
      [] c.f = "SerializeTupleVariant::end" -> SerializeTupleVariant_end(s)
      [] c.f = "serialize_struct_variant" ->
             serialize_struct_variant(s, c.variant, c.len)
      [] c.f = "SerializeStructVariant::end" -> SerializeStructVariant_end(s)
      [] c.f = "serialize_i32" -> Wrote(s, serialize_i32(c.v), TRUE)
      [] c.f = "serialize_bool" -> Wrote(s, serialize_bool(c.v), TRUE)

\* the calls of a derived implementation, one after another
RECURSIVE Calls(_, _)
Calls(s, cs) ==
    IF cs = <<>> THEN Wrote(s, <<>>, TRUE)
    ELSE LET rest(w) == Then(w, Calls(w.ser, Tail(cs)))
         IN  rest(Call(s, Head(cs)))

\* the names of the variants of TestEnum and of the fields of its Struct
VariantName(v) ==
    CASE v = "Unit" -> <<85, 110, 105, 116>>
      [] v = "Newtype" -> <<78, 101, 119, 116, 121, 112, 101>>
      [] v = "Tuple" -> <<84, 117, 112, 108, 101>>
      [] v = "Struct" -> <<83, 116, 114, 117, 99, 116>>

FieldA == <<97>>
FieldB == <<98>>

\* <TestEnum as Serialize>::serialize, derived
TestEnum_serialize(s, e) ==
    CASE e.variant = "Unit" -> serialize_unit_variant(s, VariantName("Unit"))
      [] e.variant = "Newtype" ->
             serialize_newtype_variant(s, VariantName("Newtype"), e.a)
      [] e.variant = "Tuple" ->
             Calls(s, <<[f |-> "serialize_tuple_variant",
                         variant |-> VariantName("Tuple"), len |-> 2],
                        [f |-> "serialize_i32", v |-> e.a],
                        [f |-> "serialize_bool", v |-> e.b],
                        [f |-> "SerializeTupleVariant::end"]>>)
      [] e.variant = "Struct" ->
             Calls(s, <<[f |-> "serialize_struct_variant",
                         variant |-> VariantName("Struct"), len |-> 2],
                        [f |-> "serialize_static_key", key |-> FieldA],
                        [f |-> "serialize_i32", v |-> e.a],
                        [f |-> "serialize_static_key", key |-> FieldB],
                        [f |-> "serialize_bool", v |-> e.b],
                        [f |-> "SerializeStructVariant::end"]>>)

\* to_vec("Unit"), and <NewtypeEquivalent as Serialize>::serialize,
\* <TupleEquivalent as Serialize>::serialize and
\* <StructEquivalent as Serialize>::serialize, derived
Equivalent_serialize(s, e) ==
    CASE e.variant = "Unit" -> serialize_str(s, VariantName("Unit"))
      [] e.variant = "Newtype" ->
             Calls(s, <<[f |-> "serialize_struct", name |-> <<>>, len |-> 1],
                        [f |-> "serialize_static_key",
                         key |-> VariantName("Newtype")],
                        [f |-> "serialize_i32", v |-> e.a],
                        [f |-> "SerializeStruct::end"]>>)
      [] e.variant = "Tuple" ->
             Calls(s, <<[f |-> "serialize_struct", name |-> <<>>, len |-> 1],
                        [f |-> "serialize_static_key",
                         key |-> VariantName("Tuple")],
                        [f |-> "serialize_tuple"],
                        [f |-> "serialize_i32", v |-> e.a],
                        [f |-> "serialize_bool", v |-> e.b],
                        [f |-> "SerializeTuple::end"],
                        [f |-> "SerializeStruct::end"]>>)
      [] e.variant = "Struct" ->
             Calls(s, <<[f |-> "serialize_struct", name |-> <<>>, len |-> 1],
                        [f |-> "serialize_static_key",
                         key |-> VariantName("Struct")],
                        [f |-> "serialize_struct", name |-> <<>>, len |-> 2],
                        [f |-> "serialize_static_key", key |-> FieldA],
                        [f |-> "serialize_i32", v |-> e.a],
                        [f |-> "serialize_static_key", key |-> FieldB],
                        [f |-> "serialize_bool", v |-> e.b],
                        [f |-> "SerializeStruct::end"],
                        [f |-> "SerializeStruct::end"]>>)

-----------------------------------------------------------------------------
(* ser/key_serializer.rs: impl serde::Serializer for KeySerializer, and    *)
(* the one-entry maps of test/maps.rs.  An integer is a number of the      *)
(* model whatever its type's width; each call yields the Serializer, the   *)
(* bytes written and the Result.                                           *)

KeyWrote(s, bytes, res) == [ser |-> s, out |-> bytes, res |-> res]

\* the decimal digits itoa::Buffer::format writes, and Display for integers
RECURSIVE Digits(_)
Digits(n) == IF n < 10 THEN <<48 + n>> ELSE Digits(n \div 10) \o <<48 + (n % 10)>>

itoa(n) == IF n < 0 THEN <<45>> \o Digits(-n) ELSE Digits(n)

\* KeySerializer::serialize_str
KeySerializer_serialize_str(s, v) ==
    LET ok(w) == KeyWrote(w.ser, w.out, Ok("unit"))
    IN  ok(serialize_maybe_static_str(s, v))

\* KeySerializer::serialize_int, which serialize_i8 .. serialize_u128 call
KeySerializer_serialize_int(s, v) == KeySerializer_serialize_str(s, itoa(v))

\* KeySerializer::serialize_unit_variant
KeySerializer_serialize_unit_variant(s, variant) ==
    KeyWrote(s, <<>>, Err("KeyMustBeAString"))

\* KeySerializer::serialize_newtype_struct
KeySerializer_serialize_newtype_struct(s, value) ==
    KeyWrote(s, <<>>, Err("KeyMustBeAString"))

IntegerTypes ==
    {"u8", "u16", "u32", "u64", "u128", "i8", "i16", "i32", "i64", "i128"}

\* "Variant", the one variant of the TestEnum of test/maps.rs
VARIANT == <<86, 97, 114, 105, 97, 110, 116>>

\* <K as Serialize>::serialize(KeySerializer) for the key types of the
\* tests: an integer, TestEnum::Variant, TestNewtype(String), and String
Key_serialize(s, key) ==
    CASE key.ty \in IntegerTypes -> KeySerializer_serialize_int(s, key.n)
      [] key.ty = "enum" -> KeySerializer_serialize_unit_variant(s, VARIANT)
      [] key.ty = "newtype" -> KeySerializer_serialize_newtype_struct(s, key.s)
      [] key.ty = "string" -> KeySerializer_serialize_str(s, key.s)

\* Display: the string run_test keys the expected map by
to_string(key) ==
    CASE key.ty \in IntegerTypes -> itoa(key.n)
      [] key.ty = "enum" -> VARIANT
      [] key.ty \in {"newtype", "string"} -> key.s

\* <HashMap<K, &str> as Serialize>::serialize for the entry (key, value):
\* serialize_map, SerializeMap::serialize_key and serialize_value, end
HashMap_serialize(s, key, value) ==
    LET ended(m, k, v) ==
            KeyWrote(v.ser, m.out \o k.out \o v.out \o <<251>>, Ok("unit"))
        valued(m, k) ==
            IF ~k.res.ok THEN KeyWrote(k.ser, m.out \o k.out, k.res)
            ELSE ended(m, k, serialize_str(k.ser, value))
        keyed(m) == valued(m, Key_serialize(m.ser, key))
    IN  keyed(serialize_map(s))

-----------------------------------------------------------------------------
(* ser/mod.rs: Builder and Serializer construction.                        *)

\* Serializer::builder(): the default options.  `touched` is not a field of
\* the source: it records that a setter has been called on this Builder.
Serializer_builder ==
    [raw_binary |-> TRUE, shared_strings |-> FALSE, shared_properties |-> TRUE,
     touched |-> FALSE]

\* Builder::raw_binary, Builder::shared_strings, Builder::shared_properties
Builder_raw_binary(b, v) == [b EXCEPT !.raw_binary = v, !.touched = TRUE]
Builder_shared_strings(b, v) == [b EXCEPT !.shared_strings = v, !.touched = TRUE]
Builder_shared_properties(b, v) ==
    [b EXCEPT !.shared_properties = v, !.touched = TRUE]

\* the flags byte Builder::build computes
header_flags(b) ==
    Or8(Or8(IF b.raw_binary THEN 4 ELSE 0,
            IF b.shared_strings THEN 2 ELSE 0),
        IF b.shared_properties THEN 1 ELSE 0)

\* a build that leaves the header to a later call
Builder_build_deferred(b) ==
    Wrote([raw_binary |-> b.raw_binary,
           shared_strings |-> IF b.shared_strings THEN Some(EmptyMap) ELSE None,
           shared_properties |->
               IF b.shared_properties THEN Some(EmptyMap) ELSE None],
          <<>>, TRUE)

\* Builder::build: writes ":)\n" and the flags, and makes the Serializer
Builder_build(b) ==
    Wrote([raw_binary |-> b.raw_binary,
           shared_strings |-> IF b.shared_strings THEN Some(EmptyMap) ELSE None,
           shared_properties |->
               IF b.shared_properties THEN Some(EmptyMap) ELSE None],
          <<58, 41, 10, header_flags(b)>>, TRUE)

-----------------------------------------------------------------------------
(* de/mod.rs: the Deserializer.  Its reader is a SliceRead over `slice`;   *)
(* d.index is the reader's index.  Each parse operator yields the          *)
(* Deserializer after the call and the Result: Ok carries the event handed *)
(* to the visitor, Err the error kind.                                     *)

Rd(d, slice) == Reader(slice, d.index)
Parsed(d, r, res) == [d |-> [d EXCEPT !.index = r.index], res |-> res]

\* Deserializer::new with the two cache flag bits exchanged
Deserializer_new_swapped(slice) ==
    LET rd == SliceRead_read(Reader(slice, 0), 4)
    IN  IF ~rd.v.some THEN Err("EofWhileParsingHeader")
        ELSE LET header == rd.v.v
                 info == header[4]
             IN  IF SubSeq(header, 1, 3) # <<58, 41, 10>> THEN Err("InvalidHeader")
                 ELSE IF And8(info, 240) # 0 THEN Err("UnsupportedVersion")
                 ELSE Ok([index |-> rd.r.index,
                          remaining_depth |-> 128,
                          shared_strings |->
                              IF And8(info, 1) # 0 THEN Some(EmptyVec) ELSE None,
                          shared_properties |->
                              IF And8(info, 2) # 0 THEN Some(EmptyVec) ELSE None])

\* Deserializer::new: read and validate the 4-byte header
Deserializer_new(slice) ==
    LET rd == SliceRead_read(Reader(slice, 0), 4)
    IN  IF ~rd.v.some THEN Err("EofWhileParsingHeader")
        ELSE LET header == rd.v.v
                 info == header[4]
             IN  IF SubSeq(header, 1, 3) # <<58, 41, 10>> THEN Err("InvalidHeader")
                 ELSE IF And8(info, 240) # 0 THEN Err("UnsupportedVersion")
                 ELSE Ok([index |-> rd.r.index,
                          remaining_depth |-> 128,
                          shared_strings |->
                              IF And8(info, 2) # 0 THEN Some(EmptyVec) ELSE None,
                          shared_properties |->
                              IF And8(info, 1) # 0 THEN Some(EmptyVec) ELSE None])

\* parse_shared_string
parse_shared_string(d, r, reference) ==
    LET s == IF d.shared_strings.some
             THEN de_get(d.shared_strings.v, reference) ELSE None
    IN  IF ~s.some THEN Parsed(d, r, Err("InvalidStringReference"))
        ELSE Parsed(d, r, Ok([tag |-> "str", v |-> s.v]))

\* parse_long_shared_string
parse_long_shared_string(d, r, reference_hi) ==
    LET nx == SliceRead_next(r)
    IN  IF ~nx.v.some THEN Parsed(d, nx.r, Err("EofWhileParsingValue"))
        ELSE parse_shared_string(d, nx.r, reference_hi * 256 + nx.v.v)

\* parse_i32: (parse_vint(5)? as u32) through zigzag_i32
parse_i32(d, r) ==
    LET vint == parse_vint(r, 5)
    IN  IF ~vint.res.ok THEN Parsed(d, vint.r, vint.res)
        ELSE Parsed(d, vint.r,
                    Ok([tag |-> "i32", v |-> zigzag_i32(Truncate(vint.res.v, 32))]))

\* parse_i64
parse_i64(d, r) ==
    LET vint == parse_vint(r, 10)
    IN  IF ~vint.res.ok THEN Parsed(d, vint.r, vint.res)
        ELSE Parsed(d, vint.r, Ok([tag |-> "i64", v |-> zigzag_i64(vint.res.v)]))

\* a sign_extend that always fills with zeros
sign_extend_zero(n, number) == [k \in 1 .. n |-> 0]

\* sign_extend: n bytes, each 0xff if number[0] has its top bit set, else 0
sign_extend(n, number) ==
    [k \in 1 .. n |-> IF number[1] >= 128 THEN 255 ELSE 0]

\* parse_big_integer
parse_big_integer(d, r) ==
    LET visit(rd, buf) ==
            IF buf = <<>>
            THEN Parsed(d, rd, Ok([tag |-> "big_integer", v |-> buf]))
            ELSE IF Len(buf) <= 8
            THEN Parsed(d, rd,
                     Ok([tag |-> "i64",
                         v |-> FromBytesBE(sign_extend(8 - Len(buf), buf) \o buf, 64)]))
            ELSE IF Len(buf) = 9 /\ buf[1] = 0
            THEN Parsed(d, rd, Ok([tag |-> "u64", v |-> FromBytesBE(Tail(buf), 64)]))
            ELSE IF Len(buf) <= 16
            THEN Parsed(d, rd,
                     Ok([tag |-> "i128",
                         v |-> FromBytesBE(sign_extend(16 - Len(buf), buf) \o buf, 128)]))
            ELSE IF Len(buf) = 17 /\ buf[1] = 0
            THEN Parsed(d, rd, Ok([tag |-> "u128", v |-> FromBytesBE(Tail(buf), 128)]))
            ELSE Parsed(d, rd, Ok([tag |-> "big_integer", v |-> buf]))
        with(bin) ==
            IF ~bin.res.ok THEN Parsed(d, bin.r, bin.res)
            ELSE visit(bin.r, bin.res.v)
    IN  with(parse_7_bit_binary(r))

\* parse_f32: the event carries the bit pattern handed to f32::from_bits
parse_f32(d, r) ==
    LET rd == SliceRead_read(r, 5)
    IN  IF ~rd.v.some THEN Parsed(d, rd.r, Err("EofWhileParsingValue"))
        ELSE Parsed(d, rd.r,
                    Ok([tag |-> "f32",
                        v |-> ShiftIn(rd.v.v, <<28, 21, 14, 7, 0>>, 32)]))

\* parse_f64
parse_f64(d, r) ==
    LET rd == SliceRead_read(r, 10)
    IN  IF ~rd.v.some THEN Parsed(d, rd.r, Err("EofWhileParsingValue"))
        ELSE Parsed(d, rd.r,
                    Ok([tag |-> "f64",
                        v |-> ShiftIn(rd.v.v,
                                      <<63, 56, 49, 42, 35, 28, 21, 14, 7, 0>>, 64)]))

\* parse_short_string: a literal of len bytes, interned if the cache is on
parse_short_string(d, r, len) ==
    LET rd == SliceRead_read(r, len)
    IN  IF ~rd.v.some THEN Parsed(d, rd.r, Err("EofWhileParsingValue"))
        ELSE IF ~IsUtf8(rd.v.v) THEN Parsed(d, rd.r, Err("InvalidUtf8"))
        ELSE LET s == rd.v.v
                 d1 == IF d.shared_strings.some /\ Len(s) <= 64
                       THEN [d EXCEPT !.shared_strings =
                                          Some(de_intern(d.shared_strings.v, s))]
                       ELSE d
             IN  Parsed(d1, rd.r, Ok([tag |-> "str", v |-> s]))

\* parse_long_string: up to the 0xfc terminator, never interned
parse_long_string(d, r) ==
    LET rd == SliceRead_read_until(r, 252)
    IN  IF ~rd.v.some THEN Parsed(d, rd.r, Err("EofWhileParsingValue"))
        ELSE IF ~IsUtf8(rd.v.v) THEN Parsed(d, rd.r, Err("InvalidUtf8"))
        ELSE Parsed(d, rd.r, Ok([tag |-> "str", v |-> rd.v.v]))

\* parse_binary
parse_binary(d, r) ==
    LET with(bin) ==
            IF ~bin.res.ok THEN Parsed(d, bin.r, bin.res)
            ELSE Parsed(d, bin.r, Ok([tag |-> "bytes", v |-> bin.res.v]))
    IN  with(parse_7_bit_binary(r))

\* parse_raw_binary; a length of 2^30 or more exceeds every slice of the model
parse_raw_binary(d, r) ==
    LET vint == parse_vint(r, 10)
    IN  IF ~vint.res.ok THEN Parsed(d, vint.r, vint.res)
        ELSE IF ~IsSmall(vint.res.v)
             THEN Parsed(d, vint.r, Err("EofWhileParsingValue"))
        ELSE LET rd == SliceRead_read(vint.r, ToNat(vint.res.v))
             IN  IF ~rd.v.some THEN Parsed(d, rd.r, Err("EofWhileParsingValue"))
                 ELSE Parsed(d, rd.r, Ok([tag |-> "bytes", v |-> rd.v.v]))

\* parse_value: the token dispatch.  The bodies of arrays, maps and big
\* decimals are read by further calls the visitor makes; here the event is
\* the visit itself, raised after the opening token.
parse_value(d, slice) ==
    LET nx == SliceRead_next(Rd(d, slice))
        token == nx.v.v
        r == nx.r
    IN  IF ~nx.v.some THEN Parsed(d, r, Err("EofWhileParsingValue"))
        ELSE IF token = 0 THEN Parsed(d, r, Err("ReservedToken"))
        ELSE IF token >= 1 /\ token <= 31 THEN parse_shared_string(d, r, token - 1)
        ELSE IF token = 32 THEN Parsed(d, r, Ok([tag |-> "str", v |-> <<>>]))
        ELSE IF token = 33 THEN Parsed(d, r, Ok([tag |-> "unit"]))
        ELSE IF token = 34 THEN Parsed(d, r, Ok([tag |-> "bool", v |-> FALSE]))
        ELSE IF token = 35 THEN Parsed(d, r, Ok([tag |-> "bool", v |-> TRUE]))
        ELSE IF token = 36 THEN parse_i32(d, r)
        ELSE IF token = 37 THEN parse_i64(d, r)
        ELSE IF token = 38 THEN parse_big_integer(d, r)
        ELSE IF token = 39 THEN Parsed(d, r, Err("ReservedToken"))
        ELSE IF token = 40 THEN parse_f32(d, r)
        ELSE IF token = 41 THEN parse_f64(d, r)
        ELSE IF token = 42 THEN Parsed(d, r, Ok([tag |-> "big_decimal"]))
        ELSE IF token = 43 THEN Parsed(d, r, Err("ReservedToken"))
        ELSE IF token >= 44 /\ token <= 63 THEN Parsed(d, r, Err("ReservedToken"))
        ELSE IF token >= 64 /\ token <= 95
             THEN parse_short_string(d, r, token - (64 - 1))
        ELSE IF token >= 96 /\ token <= 127
             THEN parse_short_string(d, r, token - (96 - 33))
        ELSE IF token >= 128 /\ token <= 159
             THEN parse_short_string(d, r, token - (128 - 2))
        ELSE IF token >= 160 /\ token <= 191
             THEN parse_short_string(d, r, token - (160 - 34))
        ELSE IF token >= 192 /\ token <= 223
             THEN Parsed(d, r, Ok([tag |-> "i32",
                                   v |-> zigzag_i32(FromInt(token - 192, 32))]))
        ELSE IF token = 224 THEN parse_long_string(d, r)
        ELSE IF token >= 225 /\ token <= 227 THEN Parsed(d, r, Err("ReservedToken"))
        ELSE IF token = 228 THEN parse_long_string(d, r)
        ELSE IF token >= 229 /\ token <= 231 THEN Parsed(d, r, Err("ReservedToken"))
        ELSE IF token = 232 THEN parse_binary(d, r)
        ELSE IF token >= 233 /\ token <= 235 THEN Parsed(d, r, Err("ReservedToken"))
        ELSE IF token >= 236 /\ token <= 239
             THEN parse_long_shared_string(d, r, token - 236)
        ELSE IF token >= 240 /\ token <= 247 THEN Parsed(d, r, Err("ReservedToken"))
        ELSE IF token = 248 THEN Parsed(d, r, Ok([tag |-> "seq"]))
        ELSE IF token = 249 THEN Parsed(d, r, Err("UnexpectedToken"))
        ELSE IF token = 250 THEN Parsed(d, r, Ok([tag |-> "map"]))
        ELSE IF token = 251 THEN Parsed(d, r, Err("UnexpectedToken"))
        ELSE IF token = 252 THEN Parsed(d, r, Err("UnexpectedToken"))
        ELSE IF token = 253 THEN parse_raw_binary(d, r)
        ELSE IF token = 254 THEN Parsed(d, r, Err("ReservedToken"))
        ELSE Parsed(d, r, Err("EofWhileParsingValue"))

-----------------------------------------------------------------------------
(* de/key_deserializer.rs: map keys.                                       *)

\* parse_shared_str
parse_shared_str(d, r, reference) ==
    LET s == IF d.shared_properties.some
             THEN de_get(d.shared_properties.v, reference) ELSE None
    IN  IF ~s.some THEN Parsed(d, r, Err("InvalidStringReference"))
        ELSE Parsed(d, r, Ok([tag |-> "str", v |-> s.v]))

\* parse_long_shared_str
parse_long_shared_str(d, r, reference_hi) ==
    LET nx == SliceRead_next(r)
    IN  IF ~nx.v.some THEN Parsed(d, nx.r, Err("EofWhileParsingValue"))
        ELSE parse_shared_str(d, nx.r, reference_hi * 256 + nx.v.v)

\* parse_str_inner on the outcome rd of the read f made
parse_str_inner(d, rd) ==
    IF ~rd.v.some THEN Parsed(d, rd.r, Err("EofWhileParsingValue"))
    ELSE IF ~IsUtf8(rd.v.v) THEN Parsed(d, rd.r, Err("InvalidUtf8"))
    ELSE LET s == rd.v.v
             d1 == IF Len(s) <= 64 /\ d.shared_properties.some
                   THEN [d EXCEPT !.shared_properties =
                                      Some(de_intern(d.shared_properties.v, s))]
                   ELSE d
         IN  Parsed(d1, rd.r, Ok([tag |-> "str", v |-> s]))

\* parse_long_str and parse_short_str
parse_long_str(d, r) == parse_str_inner(d, SliceRead_read_until(r, 252))
parse_short_str(d, r, len) == parse_str_inner(d, SliceRead_read(r, len))

\* KeyDeserializer::parse_str: the key token dispatch
parse_str(d, slice) ==
    LET nx == SliceRead_next(Rd(d, slice))
        token == nx.v.v
        r == nx.r
    IN  IF ~nx.v.some THEN Parsed(d, r, Err("EofWhileParsingValue"))
        ELSE IF token <= 31 THEN Parsed(d, r, Err("ReservedToken"))
        ELSE IF token = 32 THEN Parsed(d, r, Ok([tag |-> "str", v |-> <<>>]))
        ELSE IF token >= 33 /\ token <= 47 THEN Parsed(d, r, Err("ReservedToken"))
        ELSE IF token >= 48 /\ token <= 51 THEN parse_long_shared_str(d, r, token - 48)
        ELSE IF token = 52 THEN parse_long_str(d, r)
        ELSE IF token >= 53 /\ token <= 57 THEN Parsed(d, r, Err("ReservedToken"))
        ELSE IF token = 58 THEN Parsed(d, r, Err("UnexpectedToken"))
        ELSE IF token >= 59 /\ token <= 63 THEN Parsed(d, r, Err("ReservedToken"))
        ELSE IF token >= 64 /\ token <= 127 THEN parse_shared_str(d, r, token - 64)
        ELSE IF token >= 128 /\ token <= 191
             THEN parse_short_str(d, r, token - (128 - 1))
        ELSE IF token >= 192 /\ token <= 247
             THEN parse_short_str(d, r, token - (192 - 2))
        ELSE IF token >= 248 /\ token <= 250 THEN Parsed(d, r, Err("ReservedToken"))
        ELSE IF token = 251 THEN Parsed(d, r, Err("UnexpectedToken"))
        ELSE Parsed(d, r, Err("ReservedToken"))

-----------------------------------------------------------------------------
(* de/mod.rs and value/mod.rs: arrays and maps read into a Value, under    *)
(* the recursion budget.  The calls of recursion_checked that have not yet *)
(* returned are the frames of `stack`, outermost first; each operator      *)
(* yields the Deserializer, the stack, and the Result of the top-level     *)
(* decode once it has returned.                                            *)

\* IndexMap::insert: replace the value of a key already there, else append
insert(map, key, value) ==
    IF \E k \in 1 .. Len(map) : map[k][1] = key
    THEN [k \in 1 .. Len(map) |->
              IF map[k][1] = key THEN <<key, value>> ELSE map[k]]
    ELSE Append(map, <<key, value>>)

\* a running closure of parse_array or parse_map: what its visitor holds
Frame(f, acc, key) == [f |-> f, acc |-> acc, key |-> key]

Front(st) == SubSeq(st, 1, Len(st) - 1)
Last(st) == st[Len(st)]

Running(d, st) == [d |-> d, stack |-> st, res |-> None]

\* a recursion_checked that looks at the budget before it takes one from it
recursion_checked_at_zero(d) ==
    IF d.remaining_depth = 0
    THEN [d |-> d, res |-> Err("RecursionLimitExceeded")]
    ELSE [d |-> [d EXCEPT !.remaining_depth = (@ + 255) % 256],
          res |-> Ok("f")]

\* a recursion_checked that never refuses to descend
recursion_checked_unlimited(d) ==
    [d |-> [d EXCEPT !.remaining_depth = (@ + 255) % 256], res |-> Ok("f")]

\* recursion_checked up to its call of f: one level down, refused when the
\* budget reaches zero (the budget is a u8)
recursion_checked(d) ==
    LET entered == [d EXCEPT !.remaining_depth = (@ + 255) % 256]
    IN  IF entered.remaining_depth = 0
        THEN [d |-> entered, res |-> Err("RecursionLimitExceeded")]
        ELSE [d |-> entered, res |-> Ok("f")]

\* recursion_checked after f has returned, for n enclosing calls
recursion_returned(d, n) == [d EXCEPT !.remaining_depth = (@ + n) % 256]

\* an error leaves through every running recursion_checked
failed(d, st, err) ==
    [d |-> recursion_returned(d, Len(st)), stack |-> <<>>, res |-> Some(err)]

\* a value is handed to the visitor that asked for it, or is the result
visited(d, st, v) ==
    IF st = <<>> THEN [d |-> d, stack |-> st, res |-> Some(Ok(v))]
    ELSE IF Last(st).f = "array"
    THEN Running(d, Append(Front(st), [Last(st) EXCEPT !.acc = Append(@, v)]))
    ELSE Running(d, Append(Front(st),
                           [Last(st) EXCEPT !.acc = insert(@, Last(st).key, v)]))

\* parse_array and parse_map up to the visitor's first call
descend(d, st, f) ==
    LET with(rc) ==
            IF rc.res.ok THEN Running(rc.d, Append(st, Frame(f, <<>>, <<>>)))
            ELSE failed(rc.d, st, rc.res)
    IN  with(recursion_checked(d))

\* Value::deserialize: deserialize_struct falls through to parse_value with
\* the Value visitor
Value_deserialize(d, slice, st) ==
    LET with(p) ==
            IF ~p.res.ok THEN failed(p.d, st, p.res)
            ELSE IF p.res.v.tag = "seq" THEN descend(p.d, st, "array")
            ELSE IF p.res.v.tag = "map" THEN descend(p.d, st, "map")
            ELSE visited(p.d, st, p.res.v)
    IN  with(parse_value(d, slice))

\* the end of the closure of parse_array or parse_map, after the visitor
\* has returned value: the closing token, and recursion_checked returns
close(d, slice, st, value, token, eof) ==
    LET with(nx) ==
            IF ~nx.v.some THEN failed(Parsed(d, nx.r, eof).d, st, Err(eof))
            ELSE IF nx.v.v = token
            THEN visited(recursion_returned(Parsed(d, nx.r, eof).d, 1),
                         Front(st), value)
            ELSE failed(Parsed(d, nx.r, eof).d, st, Err("TrailingData"))
    IN  with(SliceRead_next(Rd(d, slice)))

\* a visit_seq that takes the end of the input for the end of the array
visit_seq_lenient(d, slice, st) ==
    LET pk == SliceRead_peek(Rd(d, slice))
    IN  IF ~pk.some
        THEN visited(recursion_returned(d, 1), Front(st),
                     [tag |-> "array", v |-> Last(st).acc])
        ELSE IF pk.v = 249
        THEN close(d, slice, st, [tag |-> "array", v |-> Last(st).acc], 249,
                   "EofWhileParsingArray")
        ELSE Value_deserialize(d, slice, st)

\* ValueVisitor::visit_seq: one turn of its loop over next_element_seed
visit_seq(d, slice, st) ==
    LET pk == SliceRead_peek(Rd(d, slice))
    IN  IF ~pk.some THEN failed(d, st, Err("EofWhileParsingArray"))
        ELSE IF pk.v = 249
        THEN close(d, slice, st, [tag |-> "array", v |-> Last(st).acc], 249,
                   "EofWhileParsingArray")
        ELSE Value_deserialize(d, slice, st)

\* ValueVisitor::visit_map: one turn of its loop over next_key_seed and
\* next_value_seed
visit_map(d, slice, st) ==
    LET pk == SliceRead_peek(Rd(d, slice))
        with(k) ==
            IF ~k.res.ok THEN failed(k.d, st, k.res)
            ELSE Value_deserialize(
                     k.d, slice,
                     Append(Front(st), [Last(st) EXCEPT !.key = k.res.v.v]))
    IN  IF ~pk.some THEN failed(d, st, Err("EofWhileParsingMap"))
        ELSE IF pk.v = 251
        THEN close(d, slice, st, [tag |-> "object", v |-> Last(st).acc], 251,
                   "EofWhileParsingMap")
        ELSE with(parse_str(d, slice))

\* an end that consumes whatever byte comes next
Deserializer_end_any(d, slice) ==
    LET nx == SliceRead_next(Rd(d, slice))
    IN  Parsed(d, nx.r, Ok("unit"))

\* Deserializer::end: the end-of-stream token or the end of the input
Deserializer_end(d, slice) ==
    LET nx == SliceRead_next(Rd(d, slice))
    IN  IF ~nx.v.some THEN Parsed(d, nx.r, Ok("unit"))
        ELSE IF nx.v.v = 255 THEN Parsed(d, nx.r, Ok("unit"))
        ELSE Parsed(d, nx.r, Err("TrailingData"))

-----------------------------------------------------------------------------
(* de/stream_deserializer.rs: the iterator over top-level values.  A       *)
(* StreamDeserializer is the Deserializer and the done flag; next yields   *)
(* None (the end of the iteration) or Some(Result), once the decode it     *)
(* started has returned.                                                   *)

StreamDeserializer(d, done) == [de |-> d, done |-> done]

Yield(s, st, item) == [s |-> s, stack |-> st, res |-> item]

\* Deserializer::read_header: the header was read and validated when the
\* Deserializer was made, so there is nothing left to do
read_header(d) == Ok("unit")

\* the end of next that lets the iteration go on after an error
deserialized_unstopped(s, c) ==
    IF ~c.res.some THEN Yield(StreamDeserializer(c.d, s.done), c.stack, None)
    ELSE Yield(StreamDeserializer(c.d, s.done), c.stack, Some(Some(c.res.v)))

\* the end of next: the match on T::deserialize(&mut self.de), once the
\* decode c has returned
deserialized(s, c) ==
    IF ~c.res.some THEN Yield(StreamDeserializer(c.d, s.done), c.stack, None)
    ELSE IF c.res.v.ok
    THEN Yield(StreamDeserializer(c.d, s.done), c.stack, Some(Some(c.res.v)))
    ELSE Yield(StreamDeserializer(c.d, TRUE), c.stack, Some(Some(c.res.v)))

\* a next that leaves the end-of-stream token in the reader
StreamDeserializer_next_peeking(s, slice) ==
    LET pk == SliceRead_peek(Rd(s.de, slice))
        header == read_header(s.de)
    IN  IF s.done THEN Yield(s, <<>>, Some(None))
        ELSE IF ~header.ok
        THEN Yield(StreamDeserializer(s.de, TRUE), <<>>, Some(Some(header)))
        ELSE IF ~pk.some
        THEN Yield(StreamDeserializer(s.de, TRUE), <<>>, Some(None))
        ELSE IF pk.v = 255
        THEN Yield(StreamDeserializer(s.de, TRUE), <<>>, Some(None))
        ELSE deserialized(s, Value_deserialize(s.de, slice, <<>>))

\* StreamDeserializer::next, to the return of the decode or into its first
\* container
StreamDeserializer_next(s, slice) ==
    LET pk == SliceRead_peek(Rd(s.de, slice))
        header == read_header(s.de)
    IN  IF s.done THEN Yield(s, <<>>, Some(None))
        ELSE IF ~header.ok
        THEN Yield(StreamDeserializer(s.de, TRUE), <<>>, Some(Some(header)))
        ELSE IF ~pk.some
        THEN Yield(StreamDeserializer(s.de, TRUE), <<>>, Some(None))
        ELSE IF pk.v = 255
        THEN Yield(StreamDeserializer([s.de EXCEPT !.index = @ + 1], TRUE),
                   <<>>, Some(None))
        ELSE deserialized(s, Value_deserialize(s.de, slice, <<>>))

-----------------------------------------------------------------------------
(* de/mod.rs: deserialize_enum, with the derived Deserialize of the enum   *)
(* of test/enums.rs as its visitor.  An error of the visitor that is not   *)
(* one of the Deserializer's own is the kind "Custom".                     *)

Returned(d, res) == [d |-> d, res |-> res]

\* the one value of a set of one value: a call's return value, bound once
Only(S) == CHOOSE x \in S : TRUE

\* the visitors of i32, bool and (), on the event p that parse_value
\* hands them; the i32 visitor takes an integer that fits
i32_visit(p) ==
    IF ~p.res.ok THEN p
    ELSE IF p.res.v.tag = "i32" THEN Returned(p.d, Ok(p.res.v.v))
    ELSE IF p.res.v.tag = "i64" /\ FitsI32(p.res.v.v)
    THEN Returned(p.d, Ok(Truncate(p.res.v.v, 32)))
    ELSE Returned(p.d, Err("Custom"))

bool_visit(p) ==
    IF ~p.res.ok THEN p
    ELSE IF p.res.v.tag = "bool" THEN Returned(p.d, Ok(p.res.v.v))
    ELSE Returned(p.d, Err("Custom"))

unit_visit(p) ==
    IF ~p.res.ok THEN p
    ELSE IF p.res.v.tag = "unit" THEN Returned(p.d, Ok("unit"))
    ELSE Returned(p.d, Err("Custom"))

\* <T as Deserialize>::deserialize for T = i32, bool and (): deserialize_i32,
\* deserialize_bool and deserialize_unit forward to deserialize_any
deserialize(ty, d, slice) ==
    Only({CASE ty = "i32" -> i32_visit(p)
            [] ty = "bool" -> bool_visit(p)
            [] ty = "unit" -> unit_visit(p) : p \in {parse_value(d, slice)}})

\* the match on reader.next() that ends the closures of parse_array,
\* parse_map and deserialize_enum
closing(d, slice, value, token, eof) ==
    LET with(nx) ==
            IF ~nx.v.some THEN Parsed(d, nx.r, Err(eof))
            ELSE IF nx.v.v = token THEN Parsed(d, nx.r, Ok(value))
            ELSE Parsed(d, nx.r, Err("TrailingData"))
    IN  with(SliceRead_next(Rd(d, slice)))

\* the closures of parse_array and of parse_map and deserialize_enum after
\* the visitor has returned v
array_end(v, slice) ==
    IF v.res.ok THEN closing(v.d, slice, v.res.v, 249, "EofWhileParsingArray")
    ELSE v

map_end(v, slice) ==
    IF v.res.ok THEN closing(v.d, slice, v.res.v, 251, "EofWhileParsingMap")
    ELSE v

\* recursion_checked once its closure has returned r
recursion_left(r) == Returned(recursion_returned(r.d, 1), r.res)

\* SeqAccess::next_element_seed for an element of the type ty: Ok(None)
\* at the closer, else the element
next_element_seed(d, slice, ty) ==
    LET some(e) == IF e.res.ok THEN Returned(e.d, Ok(Some(e.res.v))) ELSE e
    IN  IF ~SliceRead_peek(Rd(d, slice)).some
        THEN Returned(d, Err("EofWhileParsingArray"))
        ELSE IF SliceRead_peek(Rd(d, slice)).v = 249 THEN Returned(d, Ok(None))
        ELSE Only({some(e) : e \in {deserialize(ty, d, slice)}})

\* the derived visit_seq of Tuple(i32, bool) and of Struct { a, b }, once
\* next_element_seed has returned e for the first element
TestEnum_visit_seq_second(e, slice, variant) ==
    LET second(n) ==
            IF ~n.res.ok THEN n
            ELSE IF ~n.res.v.some THEN Returned(n.d, Err("Custom"))
            ELSE Returned(n.d, Ok([variant |-> variant, a |-> e.res.v.v,
                                   b |-> n.res.v.v]))
    IN  IF ~e.res.ok THEN e
        ELSE IF ~e.res.v.some THEN Returned(e.d, Err("Custom"))
        ELSE Only({second(n) : n \in {next_element_seed(e.d, slice, "bool")}})

\* the derived visit_seq of Tuple(i32, bool) and of Struct { a, b }
TestEnum_visit_seq(d, slice, variant) ==
    Only({TestEnum_visit_seq_second(e, slice, variant) :
              e \in {next_element_seed(d, slice, "i32")}})

\* the derived visit_map of Struct { a, b }: its loop over next_key_seed
\* and next_value_seed (a key other than a and b is not met here), then
\* the loop once the key k has been read, and once the value v has
RECURSIVE TestEnum_visit_map(_, _, _, _)
RECURSIVE TestEnum_visit_map_key(_, _, _, _)
RECURSIVE TestEnum_visit_map_value(_, _, _, _, _)
TestEnum_visit_map(d, slice, a, b) ==
    IF ~SliceRead_peek(Rd(d, slice)).some
    THEN Returned(d, Err("EofWhileParsingMap"))
    ELSE IF SliceRead_peek(Rd(d, slice)).v = 251
    THEN IF a.some /\ b.some
         THEN Returned(d, Ok([variant |-> "Struct", a |-> a.v, b |-> b.v]))
         ELSE Returned(d, Err("Custom"))
    ELSE Only({TestEnum_visit_map_key(k, slice, a, b) :
                   k \in {parse_str(d, slice)}})

TestEnum_visit_map_key(k, slice, a, b) ==
    IF ~k.res.ok THEN k
    ELSE IF k.res.v.v \notin {FieldA, FieldB}
    THEN Returned(k.d, Err("UnknownField"))
    ELSE IF (IF k.res.v.v = FieldA THEN a.some ELSE b.some)
    THEN Returned(k.d, Err("Custom"))
    ELSE Only({TestEnum_visit_map_value(v, slice, k.res.v.v, a, b) :
                   v \in {deserialize(IF k.res.v.v = FieldA THEN "i32"
                                      ELSE "bool", k.d, slice)}})

TestEnum_visit_map_value(v, slice, field, a, b) ==
    IF ~v.res.ok THEN v
    ELSE IF field = FieldA
    THEN TestEnum_visit_map(v.d, slice, Some(v.res.v), b)
    ELSE TestEnum_visit_map(v.d, slice, a, Some(v.res.v))

\* parse_array with the derived visitor: the closure, once
\* recursion_checked has let it run or not (rc)
parse_array_closure(rc, slice, variant) ==
    IF ~rc.res.ok THEN rc
    ELSE Only({recursion_left(array_end(v, slice)) :
                   v \in {TestEnum_visit_seq(rc.d, slice, variant)}})

parse_array(d, slice, variant) ==
    Only({parse_array_closure(rc, slice, variant) :
              rc \in {recursion_checked(d)}})

\* parse_map with the derived visitor
parse_map_closure(rc, slice) ==
    IF ~rc.res.ok THEN rc
    ELSE Only({recursion_left(map_end(v, slice)) :
                   v \in {TestEnum_visit_map(rc.d, slice, None, None)}})

parse_map(d, slice) ==
    Only({parse_map_closure(rc, slice) : rc \in {recursion_checked(d)}})

\* the variant a name selects: the derived visit_str and visit_bytes
VariantOf(name) ==
    IF \E v \in {"Unit", "Newtype", "Tuple", "Struct"} : VariantName(v) = name
    THEN Some(CHOOSE v \in {"Unit", "Newtype", "Tuple", "Struct"} :
                  VariantName(v) = name)
    ELSE None

NoPayload(variant) == [variant |-> variant, a |-> Zero(32), b |-> FALSE]

\* VariantAccess::tuple_variant and struct_variant: deserialize_any with
\* the derived visitor, which has visit_seq and, for Struct, visit_map
VariantAccess_container(p, slice, variant) ==
    IF ~p.res.ok THEN p
    ELSE IF p.res.v.tag = "seq" THEN parse_array(p.d, slice, variant)
    ELSE IF p.res.v.tag = "map" /\ variant = "Struct" THEN parse_map(p.d, slice)
    ELSE Returned(p.d, Err("Custom"))

\* VariantAccess: unit_variant, newtype_variant_seed, tuple_variant and
\* struct_variant, each as the derived visit_enum calls it
VariantAccess_payload(d, slice, variant) ==
    LET scalar(e) ==
            IF ~e.res.ok THEN e
            ELSE IF variant = "Unit" THEN Returned(e.d, Ok(NoPayload("Unit")))
            ELSE Returned(e.d, Ok([NoPayload("Newtype") EXCEPT !.a = e.res.v]))
    IN  IF variant \in {"Unit", "Newtype"}
        THEN Only({scalar(e) :
                       e \in {deserialize(IF variant = "Unit" THEN "unit"
                                          ELSE "i32", d, slice)}})
        ELSE Only({VariantAccess_container(p, slice, variant) :
                       p \in {parse_value(d, slice)}})

\* UnitVariantAccess: only unit_variant succeeds
UnitVariantAccess_payload(d, variant) ==
    IF variant = "Unit" THEN Returned(d, Ok(NoPayload("Unit")))
    ELSE Returned(d, Err("Custom"))

\* the closure of deserialize_enum once the key k has been read: the
\* variant it names, its payload, and the end of the map
deserialize_enum_seed(k, slice) ==
    IF ~k.res.ok THEN k
    ELSE IF ~VariantOf(k.res.v.v).some THEN Returned(k.d, Err("Custom"))
    ELSE Only({map_end(v, slice) :
                   v \in {VariantAccess_payload(k.d, slice,
                                                VariantOf(k.res.v.v).v)}})

\* the closure of deserialize_enum, once recursion_checked has let it run
\* or not (rc)
deserialize_enum_closure(rc, slice) ==
    IF ~rc.res.ok THEN rc
    ELSE Only({recursion_left(deserialize_enum_seed(k, slice)) :
                   k \in {parse_str(rc.d, slice)}})

\* deserialize_enum for TestEnum
deserialize_enum(d, slice) ==
    LET unit(p) ==
            IF ~p.res.ok THEN p
            ELSE IF p.res.v.tag \in {"str", "bytes"} /\ VariantOf(p.res.v.v).some
            THEN UnitVariantAccess_payload(p.d, VariantOf(p.res.v.v).v)
            ELSE Returned(p.d, Err("Custom"))
    IN  IF ~SliceRead_peek(Rd(d, slice)).some
        THEN Returned(d, Err("EofWhileParsingValue"))
        ELSE IF SliceRead_peek(Rd(d, slice)).v = 250
        THEN Only({deserialize_enum_closure(rc, slice) :
                       rc \in {recursion_checked(
                                   [d EXCEPT !.index =
                                        SliceRead_consume(Rd(d, slice)).index])}})
        ELSE Only({unit(p) : p \in {parse_value(d, slice)}})

-----------------------------------------------------------------------------
(* de/key_deserializer.rs: impl Deserializer for KeyDeserializer, with the *)
(* key types of test/maps.rs, and the HashMap they are the keys of.        *)

\* the range of an integer type; the widest are cut to the model's numbers
MinOf(ty) ==
    CASE ty \in {"u8", "u16", "u32", "u64", "u128"} -> 0
      [] ty = "i8" -> -128
      [] ty = "i16" -> -32768
      [] ty \in {"i32", "i64", "i128"} -> -2147483647

MaxOf(ty) ==
    CASE ty = "u8" -> 255
      [] ty = "i8" -> 127
      [] ty = "u16" -> 65535
      [] ty = "i16" -> 32767
      [] ty \in {"u32", "u64", "u128", "i32", "i64", "i128"} -> 2147483647

\* the number a string of digits spells, None past max
RECURSIVE FromDigits(_, _, _)
FromDigits(ds, acc, max) ==
    IF ds = <<>> THEN Some(acc)
    ELSE IF Head(ds) < 48 \/ Head(ds) > 57 THEN None
    ELSE IF acc > (max - (Head(ds) - 48)) \div 10 THEN None
    ELSE FromDigits(Tail(ds), acc * 10 + (Head(ds) - 48), max)

\* str::parse for the integer type ty: an optional sign (no '-' for an
\* unsigned type), at least one digit, nothing else, within the range
parse(s, ty) ==
    LET signed == MinOf(ty) < 0
        neg == s # <<>> /\ s[1] = 45 /\ signed
        digits == IF s # <<>> /\ (s[1] = 43 \/ neg) THEN Tail(s) ELSE s
        with(n) ==
            IF ~n.some THEN None
            ELSE IF neg THEN Some(-n.v)
            ELSE IF n.v > MaxOf(ty) THEN None
            ELSE n
    IN  IF digits = <<>> THEN None
        ELSE with(FromDigits(digits, 0, IF neg THEN -MinOf(ty) ELSE MaxOf(ty)))

\* deserialize_integer_key!: the integer the key parses as, else visit_str,
\* which an integer's visitor refuses
deserialize_integer_key(d, slice, ty) ==
    LET with(k) ==
            IF ~k.res.ok THEN k
            ELSE IF parse(k.res.v.v, ty).some
            THEN Returned(k.d, Ok([ty |-> ty, n |-> parse(k.res.v.v, ty).v,
                                   s |-> <<>>]))
            ELSE Returned(k.d, Err("Custom"))
    IN  with(parse_str(d, slice))

\* KeyDeserializer::deserialize_enum for the TestEnum of test/maps.rs:
\* EnumAccess::variant_seed reads the name, unit_variant follows
KeyDeserializer_deserialize_enum(d, slice) ==
    LET with(k) ==
            IF ~k.res.ok THEN k
            ELSE IF k.res.v.v = VARIANT
            THEN Returned(k.d, Ok([ty |-> "enum", n |-> 0, s |-> <<>>]))
            ELSE Returned(k.d, Err("Custom"))
    IN  with(parse_str(d, slice))

\* KeyDeserializer::deserialize_newtype_struct for TestNewtype(String)
KeyDeserializer_deserialize_newtype_struct(d, slice) ==
    LET with(k) ==
            IF ~k.res.ok THEN k
            ELSE Returned(k.d, Ok([ty |-> "newtype", n |-> 0, s |-> k.res.v.v]))
    IN  with(parse_str(d, slice))

\* <K as Deserialize>::deserialize(KeyDeserializer)
Key_deserialize(d, slice, ty) ==
    CASE ty \in IntegerTypes -> deserialize_integer_key(d, slice, ty)
      [] ty = "enum" -> KeyDeserializer_deserialize_enum(d, slice)
      [] ty = "newtype" -> KeyDeserializer_deserialize_newtype_struct(d, slice)

\* <String as Deserialize>::deserialize
String_deserialize(d, slice) ==
    LET with(p) ==
            IF ~p.res.ok THEN p
            ELSE IF p.res.v.tag = "str" THEN Returned(p.d, Ok(p.res.v.v))
            ELSE Returned(p.d, Err("Custom"))
    IN  Only({with(p) : p \in {parse_value(d, slice)}})

\* the visit_map of HashMap<K, String>: its loop over next_key_seed and
\* next_value_seed
RECURSIVE HashMap_visit_map(_, _, _, _)
HashMap_visit_map(d, slice, ty, acc) ==
    LET pk == SliceRead_peek(Rd(d, slice))
        value(k, v) ==
            IF ~v.res.ok THEN v
            ELSE HashMap_visit_map(v.d, slice, ty, insert(acc, k.res.v, v.res.v))
        key(k) ==
            IF ~k.res.ok THEN k ELSE value(k, String_deserialize(k.d, slice))
    IN  IF ~pk.some THEN Returned(d, Err("EofWhileParsingMap"))
        ELSE IF pk.v = 251 THEN Returned(d, Ok(acc))
        ELSE key(Key_deserialize(d, slice, ty))

\* <HashMap<K, String> as Deserialize>::deserialize: deserialize_map
\* forwards to deserialize_any, and parse_map runs the visitor
HashMap_deserialize(d, slice, ty) ==
    LET end(v) ==
            IF v.res.ok
            THEN closing(v.d, slice, v.res.v, 251, "EofWhileParsingMap")
            ELSE v
        checked(rc) ==
            IF rc.res.ok
            THEN Only({recursion_left(end(v)) :
                       v \in {HashMap_visit_map(rc.d, slice, ty, <<>>)}})
            ELSE rc
        with(p) ==
            IF ~p.res.ok THEN p
            ELSE IF p.res.v.tag = "map"
            THEN Only({checked(rc) : rc \in {recursion_checked(p.d)}})
            ELSE Returned(p.d, Err("Custom"))
    IN  Only({with(p) : p \in {parse_value(d, slice)}})

-----------------------------------------------------------------------------
(* The VInt codec on its own: serialize_vint, then parse_vint(10) on the   *)
(* bytes it wrote.                                                         *)

Idle == None

U64Samples ==
    {FromInt(n, 64) : n \in 0 .. MaxSmall}
    \cup {LowMask(k, 64) : k \in 0 .. 64}
    \cup {TwoHot(k, j, 64) : k \in 0 .. 63, j \in 0 .. 63}

InitVInt ==
    /\ pc = "start"
    /\ input \in U64Samples
    /\ writer = <<>>
    /\ builder = Idle /\ ser = Idle /\ de = Idle
    /\ sent = <<>>
    /\ result = None
    /\ stack = <<>>

VIntWrite ==
    /\ pc = "start"
    /\ writer' = writer \o serialize_vint(input)
    /\ pc' = "written"
    /\ UNCHANGED <<stack, builder, ser, de, input, sent, result>>

VIntRead ==
    /\ pc = "written"
    /\ \E p \in {parse_vint(Reader(writer, 0), 10)} :
           result' = [res |-> p.res, index |-> p.r.index]
    /\ pc' = "read"
    /\ UNCHANGED <<stack, builder, ser, writer, de, input, sent>>

NextVInt == VIntWrite \/ VIntRead

SpecVInt == InitVInt /\ [][NextVInt]_vars

\* the largest value an n-byte VInt can carry has 6 + 7 * (n - 1) bits
VIntCapacity(n) == LowMask(6 + 7 * (n - 1), 64)

\* C3: parse_vint(10) on the bytes serialize_vint(u) wrote returns u and
\* consumes exactly those bytes; only the last byte written has its high bit
\* set; and the encoding is minimal: u does not fit a shorter VInt, and the
\* first byte is non-zero unless the encoding is one byte long.
C3_VIntRoundTripMinimal ==
    /\ pc = "read" =>
          /\ result.res = Ok(input)
          /\ result.index = Len(writer)
    /\ pc # "start" =>
          /\ Len(writer) \in 1 .. 10
          /\ \A i \in 1 .. Len(writer) : (writer[i] >= 128) <=> (i = Len(writer))
          /\ Len(writer) > 1 => writer[1] # 0
          /\ Len(writer) > 1 => ~ULe(input, VIntCapacity(Len(writer) - 1))

\* a ten-byte encoding (u >= 2^62) has been written and read back
C3_Witness ==
    /\ pc = "read"
    /\ Len(writer) = 10
    /\ input[63] = 1
    /\ result.res = Ok(input)

-----------------------------------------------------------------------------
(* The integer tokens on their own: serialize_i32 or serialize_i64, then   *)
(* parse_value on the bytes written.                                       *)

\* a Deserializer whose header enabled no cache, at the start of `writer`
PlainDe ==
    [index |-> 0, remaining_depth |-> 128,
     shared_strings |-> None, shared_properties |-> None]

SignedSamples(w) ==
    LET pos == {FromInt(n, w) : n \in 0 .. MaxSmall}
               \cup {LowMask(k, w) : k \in 0 .. (w - 1)}
               \cup {TwoHot(k, j, w) : k \in 0 .. (w - 2), j \in 0 .. (w - 2)}
    IN  pos \cup {WNeg(x) : x \in pos} \cup {OneHot(w - 1, w)}

InitInt ==
    /\ pc = "start"
    /\ input \in [ty : {"i32"}, v : SignedSamples(32)]
                 \cup [ty : {"i64"}, v : SignedSamples(64)]
    /\ writer = <<>>
    /\ builder = Idle /\ ser = Idle
    /\ de = PlainDe
    /\ sent = <<>>
    /\ result = None
    /\ stack = <<>>

IntWriteI32 ==
    /\ pc = "start"
    /\ input.ty = "i32"
    /\ writer' = writer \o serialize_i32(input.v)
    /\ pc' = "written"
    /\ UNCHANGED <<stack, builder, ser, de, input, sent, result>>

IntWriteI64 ==
    /\ pc = "start"
    /\ input.ty = "i64"
    /\ writer' = writer \o serialize_i64(input.v)
    /\ pc' = "written"
    /\ UNCHANGED <<stack, builder, ser, de, input, sent, result>>

IntRead ==
    /\ pc = "written"
    /\ \E p \in {parse_value(de, writer)} :
           /\ de' = p.d
           /\ result' = p.res
    /\ pc' = "read"
    /\ UNCHANGED <<stack, builder, ser, writer, input, sent>>

NextInt == IntWriteI32 \/ IntWriteI64 \/ IntRead

SpecInt == InitInt /\ [][NextInt]_vars

\* the decoder visited an integer equal to the one serialized
IntDecodedAs(v) ==
    /\ result.ok
    /\ result.v.tag \in {"i32", "i64"}
    /\ SignExtend(result.v.v, 64) = SignExtend(v, 64)

\* C17: serialize_i32 writes the single byte 0xC0+z exactly when
\* z = ZigZag(v) is below 32, so a one-byte integer token lies in
\* 0xC0..0xDF; for every other v it writes 0x24 and VInt(z).
C17_SmallIntToken ==
    (pc \in {"written", "read"} /\ input.ty = "i32") =>
        LET z == zigzag_of_i32(input.v)
        IN  /\ IF ULe(z, FromInt(31, Width(z)))
               THEN writer = <<192 + AsU8(z)>>
               ELSE writer = <<36>> \o serialize_vint(z)
            /\ Len(writer) = 1 => writer[1] \in 192 .. 223

\* C1: for every i32 and every i64 v, parse_value on the bytes serialize_i32 /
\* serialize_i64 wrote for v yields exactly v again (and reads all of them).
C1_IntRoundTrip ==
    pc = "read" => IntDecodedAs(input.v) /\ de.index = Len(writer)

-----------------------------------------------------------------------------
(* The float tokens on their own: serialize_f32 or serialize_f64 on a bit  *)
(* pattern, then parse_value on the bytes written.                         *)

BitSamples(w) ==
    {LowMask(k, w) : k \in 0 .. w}
    \cup {TwoHot(k, j, w) : k \in 0 .. (w - 1), j \in 0 .. (w - 1)}
    \cup {WXor(LowMask(w, w), OneHot(k, w)) : k \in 0 .. (w - 1)}

InitFloat ==
    /\ pc = "start"
    /\ input \in [ty : {"f32"}, v : BitSamples(32)]
                 \cup [ty : {"f64"}, v : BitSamples(64)]
    /\ writer = <<>>
    /\ builder = Idle /\ ser = Idle
    /\ de = PlainDe
    /\ sent = <<>>
    /\ result = None
    /\ stack = <<>>

FloatWriteF32 ==
    /\ pc = "start"
    /\ input.ty = "f32"
    /\ writer' = writer \o serialize_f32(input.v)
    /\ pc' = "written"
    /\ UNCHANGED <<stack, builder, ser, de, input, sent, result>>

FloatWriteF64 ==
    /\ pc = "start"
    /\ input.ty = "f64"
    /\ writer' = writer \o serialize_f64(input.v)
    /\ pc' = "written"
    /\ UNCHANGED <<stack, builder, ser, de, input, sent, result>>

FloatRead ==
    /\ pc = "written"
    /\ \E p \in {parse_value(de, writer)} :
           /\ de' = p.d
           /\ result' = p.res
    /\ pc' = "read"
    /\ UNCHANGED <<stack, builder, ser, writer, input, sent>>

NextFloat == FloatWriteF32 \/ FloatWriteF64 \/ FloatRead

SpecFloat == InitFloat /\ [][NextFloat]_vars

\* the septets of a w-bit pattern, most significant first
BigEndianSeptets(bits, n) == [i \in 1 .. n |-> Septet(bits, 7 * (n - i))]

\* C4: serialize_f32 writes 0x28 and 5 bytes with the high bit clear that carry
\* the pattern in big-endian septet order, and parse_f32 rebuilds the pattern;
\* serialize_f64 likewise with 0x29 and 10 septets.
C4_FloatRoundTrip ==
    /\ (pc # "start" /\ input.ty = "f32") =>
          writer = <<40>> \o BigEndianSeptets(input.v, 5)
    /\ (pc # "start" /\ input.ty = "f64") =>
          writer = <<41>> \o BigEndianSeptets(input.v, 10)
    /\ pc = "read" => result = Ok([tag |-> input.ty, v |-> input.v])

-----------------------------------------------------------------------------
(* The 7-bit packer on its own: serialize_7_bit_binary on a byte string,   *)
(* then parse_7_bit_binary on the bytes written.                           *)

\* byte strings of length n: every byte the same, or one byte different
BinOfLen(n) ==
    {[i \in 1 .. n |-> b] : b \in {0, 1, 127, 128, 255}}
    \cup {[i \in 1 .. n |-> IF i = k THEN b ELSE 0] :
              k \in 1 .. n, b \in {1, 2, 4, 8, 16, 32, 64, 128, 255}}

BinSamples == UNION {BinOfLen(n) : n \in 0 .. MaxBinLen}

InitBin ==
    /\ pc = "start"
    /\ input \in BinSamples
    /\ writer = <<>>
    /\ builder = Idle /\ ser = Idle /\ de = Idle
    /\ sent = <<>>
    /\ result = None
    /\ stack = <<>>

BinWrite ==
    /\ pc = "start"
    /\ writer' = writer \o serialize_7_bit_binary(input)
    /\ pc' = "written"
    /\ UNCHANGED <<stack, builder, ser, de, input, sent, result>>

BinRead ==
    /\ pc = "written"
    /\ \E p \in {parse_7_bit_binary(Reader(writer, 0))} :
           result' = [res |-> p.res, index |-> p.r.index]
    /\ pc' = "read"
    /\ UNCHANGED <<stack, builder, ser, writer, de, input, sent>>

NextBin == BinWrite \/ BinRead

SpecBin == InitBin /\ [][NextBin]_vars

\* C18: after the length VInt, serialize_7_bit_binary writes exactly
\* 8*(len div 7) + (rem = 0 ? 0 : rem + 1) bytes for a payload of len bytes
\* with rem = len mod 7, each below 0x80, and parse_7_bit_binary reads as
\* many.
C18_PackedLength ==
    pc \in {"written", "read"} =>
        LET len == Len(input)
            rem == len % 7
            vint == serialize_vint(FromInt(len, 64))
            packed == SubSeq(writer, Len(vint) + 1, Len(writer))
        IN  /\ SubSeq(writer, 1, Len(vint)) = vint
            /\ Len(packed) = 8 * (len \div 7) + (IF rem = 0 THEN 0 ELSE rem + 1)
            /\ \A k \in 1 .. Len(packed) : packed[k] < 128
            /\ pc = "read" => result.index = Len(writer)

\* C2: parse_7_bit_binary on the output of serialize_7_bit_binary(b) returns
\* exactly b and consumes exactly the bytes the encoder wrote, for every b.
C2_SevenBitRoundTrip ==
    pc = "read" => result.res = Ok(input) /\ result.index = Len(writer)

-----------------------------------------------------------------------------
(* Deserializer::new on its own, over arbitrary input bytes.               *)

\* the bytes tried at each position of the input
HeaderByteAt(i) ==
    IF i <= 3 THEN {58, 41, 10, 0}
    ELSE IF i = 4 THEN (0 .. 8) \cup {15, 16, 17, 35, 128, 240, 255}
    ELSE {0, 192}

RECURSIVE RawInputsOfLen(_)
RawInputsOfLen(n) ==
    IF n = 0 THEN {<<>>}
    ELSE {Append(p, b) : p \in RawInputsOfLen(n - 1), b \in HeaderByteAt(n)}

RawInputs == UNION {RawInputsOfLen(n) : n \in 0 .. MaxHeaderLen}

InitHeader ==
    /\ pc = "start"
    /\ input \in RawInputs
    /\ writer = <<>>
    /\ builder = Idle /\ ser = Idle /\ de = Idle
    /\ sent = <<>>
    /\ result = None
    /\ stack = <<>>

HeaderNew ==
    /\ pc = "start"
    /\ \E r \in {Deserializer_new(input)} :
           /\ result' = r
           /\ de' = IF r.ok THEN r.v ELSE Idle
    /\ pc' = "done"
    /\ UNCHANGED <<stack, builder, ser, writer, input, sent>>

NextHeader == HeaderNew

SpecHeader == InitHeader /\ [][NextHeader]_vars

HasMagic(bytes) == bytes[1] = 58 /\ bytes[2] = 41 /\ bytes[3] = 10

\* C9: fewer than 4 bytes yield EofWhileParsingHeader; 4 or more bytes not
\* starting 3A 29 0A yield InvalidHeader; the magic with a non-zero high
\* nibble in the fourth byte yields UnsupportedVersion; otherwise the
\* Deserializer is built, its value-string cache enabled iff bit 1 of the
\* fourth byte is set and its property-name cache enabled iff bit 0 is set.
C9_HeaderValidation ==
    pc = "done" =>
        IF Len(input) < 4 THEN result = Err("EofWhileParsingHeader")
        ELSE IF ~HasMagic(input) THEN result = Err("InvalidHeader")
        ELSE IF input[4] \div 16 # 0 THEN result = Err("UnsupportedVersion")
        ELSE /\ result.ok
             /\ de = result.v
             /\ de.shared_strings.some <=> ((input[4] \div 2) % 2 = 1)
             /\ de.shared_properties.some <=> (input[4] % 2 = 1)
             /\ de.shared_strings.some => de.shared_strings.v = <<>>
             /\ de.shared_properties.some => de.shared_properties.v = <<>>

\* a header that enables the value-string cache and not the property-name
\* cache has been accepted
C9_Witness ==
    /\ pc = "done"
    /\ Len(input) >= 4 /\ HasMagic(input) /\ input[4] = 2
    /\ result.ok
    /\ de.shared_strings.some /\ ~de.shared_properties.some

-----------------------------------------------------------------------------
(* One string through the encoder and the decoder: serialize_str or        *)
(* serialize_maybe_static_str right after build, then Deserializer::new    *)
(* and parse_value or parse_str over the bytes written.                    *)

Repeat(b, n) == [i \in 1 .. n |-> b]

\* "aaa...", "\u{e9}aa...", "aa...\u{e9}" and "\u{20ac}aa..." of n bytes
StrOfLen(n) ==
    {Repeat(97, n)}
    \cup (IF n >= 2 THEN {<<195, 169>> \o Repeat(97, n - 2),
                          Repeat(97, n - 2) \o <<195, 169>>}
          ELSE {})
    \cup (IF n >= 3 THEN {<<226, 130, 172>> \o Repeat(97, n - 3)} ELSE {})

StrSamples == UNION {StrOfLen(n) : n \in 0 .. MaxStrLen}

\* the Builders that configure the two caches
CacheBuilders ==
    {Builder_shared_properties(Builder_shared_strings(
         Builder_raw_binary(Serializer_builder, FALSE), ss), sp) :
         ss \in BOOLEAN, sp \in BOOLEAN}

InitStr ==
    /\ pc = "start"
    /\ input \in [pos : {"value", "key"}, v : StrSamples]
    /\ builder \in CacheBuilders
    /\ ser = Builder_build(builder).ser
    /\ writer = Builder_build(builder).out
    /\ de = Idle
    /\ sent = <<>>
    /\ result = None
    /\ stack = <<>>

StrWriteValue ==
    /\ pc = "start"
    /\ input.pos = "value"
    /\ \E w \in {serialize_str(ser, input.v)} :
           /\ ser' = w.ser
           /\ writer' = writer \o w.out
    /\ pc' = "written"
    /\ UNCHANGED <<stack, builder, de, input, sent, result>>

StrWriteKey ==
    /\ pc = "start"
    /\ input.pos = "key"
    /\ \E w \in {serialize_maybe_static_str(ser, input.v)} :
           /\ ser' = w.ser
           /\ writer' = writer \o w.out
    /\ pc' = "written"
    /\ UNCHANGED <<stack, builder, de, input, sent, result>>

StrOpen ==
    /\ pc = "written"
    /\ de' = Deserializer_new(writer).v
    /\ pc' = "opened"
    /\ UNCHANGED <<stack, builder, ser, writer, input, sent, result>>

StrReadValue ==
    /\ pc = "opened"
    /\ input.pos = "value"
    /\ \E p \in {parse_value(de, writer)} :
           /\ de' = p.d
           /\ result' = p.res
    /\ pc' = "read"
    /\ UNCHANGED <<stack, builder, ser, writer, input, sent>>

StrReadKey ==
    /\ pc = "opened"
    /\ input.pos = "key"
    /\ \E p \in {parse_str(de, writer)} :
           /\ de' = p.d
           /\ result' = p.res
    /\ pc' = "read"
    /\ UNCHANGED <<stack, builder, ser, writer, input, sent>>

NextStr ==
    \/ StrWriteValue
    \/ StrWriteKey
    \/ StrOpen
    \/ StrReadValue
    \/ StrReadKey

SpecStr == InitStr /\ [][NextStr]_vars

\* the bytes written after the 4-byte header
Body == SubSeq(writer, 5, Len(writer))

\* C5: a non-empty value string written literally gets a token of its
\* length class (ASCII: 0x40-0x5F for 1-32 bytes, 0x60-0x7F for 33-64;
\* non-ASCII: 0x80-0x9F for 2-33 bytes, 0xA0-0xBF for 34-64; longer: 0xE0
\* or 0xE4, the bytes, 0xFC), and parse_value then reads exactly the
\* payload and yields the string.
C5_ValueStringRoundTrip ==
    (input.pos = "value" /\ input.v # <<>> /\ pc # "start") =>
        LET s == input.v
            n == Len(s)
        IN  /\ IF n > 64
               THEN /\ Body[1] = (IF is_ascii(s) THEN 224 ELSE 228)
                    /\ Body = <<Body[1]>> \o s \o <<252>>
               ELSE /\ Body = <<Body[1]>> \o s
                    /\ IF is_ascii(s)
                       THEN IF n <= 32 THEN Body[1] \in 64 .. 95
                                       ELSE Body[1] \in 96 .. 127
                       ELSE IF n <= 33 THEN Body[1] \in 128 .. 159
                                       ELSE Body[1] \in 160 .. 191
            /\ pc = "read" =>
                   /\ result = Ok([tag |-> "str", v |-> s])
                   /\ de.index = Len(writer)

\* C6: the empty key is written as 0x20, an ASCII key of 1..64 bytes as
\* 0x80+len-1 and the bytes, a non-ASCII key of 2..56 bytes as 0xC0+len-2
\* and the bytes, any other key as 0x34, the bytes, 0xFC; parse_str reads
\* each of them back to the same key, consuming exactly what was written.
C6_KeyRoundTrip ==
    (input.pos = "key" /\ pc # "start") =>
        LET k == input.v
            n == Len(k)
        IN  /\ Body = (IF n = 0 THEN <<32>>
                       ELSE IF is_ascii(k) /\ n <= 64 THEN <<128 + n - 1>> \o k
                       ELSE IF ~is_ascii(k) /\ n >= 2 /\ n <= 56
                            THEN <<192 + n - 2>> \o k
                       ELSE <<52>> \o k \o <<252>>)
            /\ pc = "read" =>
                   /\ result = Ok([tag |-> "str", v |-> k])
                   /\ de.index = Len(writer)

\* a non-ASCII key at the top of its short family has been read back
C6_Witness ==
    /\ pc = "read"
    /\ input.pos = "key"
    /\ Len(input.v) = 56 /\ ~is_ascii(input.v)
    /\ Body[1] = 246
    /\ result = Ok([tag |-> "str", v |-> input.v])

-----------------------------------------------------------------------------
(* Documents: Deserializer::new over a whole input, then Value::deserialize *)
(* (any number of times on the same Deserializer) and Deserializer::end;   *)
(* from_slice is new, one deserialize and end, stopping at the first       *)
(* error.  `input` is the input, `sent` the results of the decodes so far. *)

DocHeader == <<58, 41, 10, 0>>

\* n array openers, and n array closers
Openers(n) == [k \in 1 .. n |-> 248]
Closers(n) == [k \in 1 .. n |-> 249]

\* nesting depths around the recursion budget
NestDepths == {1, 2} \cup ((MaxNest - 3) .. MaxNest)

\* one top-level value, well-formed or cut short
DocValues ==
    {Openers(n) : n \in NestDepths}
        \cup {Openers(n) \o Closers(n) : n \in NestDepths}
        \cup {<<33>>, <<193>>, <<248, 193, 33, 249>>, <<248, 193>>,
              <<250, 128, 97, 193, 251>>, <<250, 128, 97, 248, 249, 251>>,
              <<248, 250, 128, 97, 193, 128, 97, 33, 251, 249>>,
              <<250, 128, 97>>, <<249>>, <<>>,
              <<248, 251>>, <<248, 193, 251>>, <<250, 249>>,
              <<250, 128, 97, 193, 249>>, <<250>>, <<250, 128, 97, 193>>,
              <<248, 65, 97>>}

\* what follows the first value
DocTrailers == {<<>>, <<255>>, <<33>>, <<255, 33>>, <<193, 255>>, <<248, 249>>}

InitDoc ==
    /\ pc = "new"
    /\ builder = Idle
    /\ ser = Idle
    /\ writer = <<>>
    /\ de = Idle
    /\ input \in {DocHeader \o v \o t : v \in DocValues, t \in DocTrailers}
    /\ sent = <<>>
    /\ result = None
    /\ stack = <<>>

DocNew ==
    /\ pc = "new"
    /\ \E n \in {Deserializer_new(input)} :
           /\ de' = IF n.ok THEN n.v ELSE Idle
           /\ pc' = IF n.ok THEN "de" ELSE "failed"
    /\ UNCHANGED <<builder, ser, writer, input, sent, result, stack>>

\* T::deserialize(&mut de) with T = Value: up to its return, or into the
\* first container
DocDeserialize ==
    /\ pc = "de"
    /\ Len(sent) < MaxDecodes
    /\ \E c \in {Value_deserialize(de, input, <<>>)} :
           /\ de' = c.d
           /\ stack' = c.stack
           /\ pc' = IF c.res.some THEN "de" ELSE "decoding"
           /\ result' = IF c.res.some THEN c.res.v ELSE result
           /\ sent' = IF c.res.some THEN Append(sent, c.res.v) ELSE sent
    /\ UNCHANGED <<builder, ser, writer, input>>

\* the decode goes on inside the innermost container
DocVisit ==
    /\ pc = "decoding"
    /\ \E c \in {IF Last(stack).f = "array"
                 THEN visit_seq(de, input, stack)
                 ELSE visit_map(de, input, stack)} :
           /\ de' = c.d
           /\ stack' = c.stack
           /\ pc' = IF c.res.some THEN "de" ELSE "decoding"
           /\ result' = IF c.res.some THEN c.res.v ELSE result
           /\ sent' = IF c.res.some THEN Append(sent, c.res.v) ELSE sent
    /\ UNCHANGED <<builder, ser, writer, input>>

DocEnd ==
    /\ pc = "de"
    /\ \E p \in {Deserializer_end(de, input)} :
           /\ de' = p.d
           /\ result' = p.res
           /\ pc' = IF p.res.ok THEN "ended" ELSE "failed"
    /\ UNCHANGED <<builder, ser, writer, input, sent, stack>>

NextDoc ==
    \/ DocNew
    \/ DocDeserialize
    \/ DocVisit
    \/ DocEnd

SpecDoc == InitDoc /\ [][NextDoc]_vars

\* C12: a valid header followed by 129 nested array openers fails with
\* RecursionLimitExceeded, and the decoder has then consumed nothing past
\* the 129th opener.
C12_RecursionLimit ==
    (/\ pc = "de"
     /\ Len(sent) = 1
     /\ Len(input) >= 4 + 129
     /\ SubSeq(input, 5, 4 + 129) = Openers(129)) =>
        /\ result = Err("RecursionLimitExceeded")
        /\ de.index <= 4 + 129

C12_Witness ==
    /\ pc = "de"
    /\ Len(sent) = 1
    /\ input = DocHeader \o Openers(129)
    /\ ~result.ok

\* C13: whenever a top-level decode has returned, with a value or with any
\* error, the remaining-depth counter is 128 again.
C13_DepthRestored ==
    pc \in {"de", "ended"} => de.remaining_depth = 128

\* C14: after a successful top-level decode, end() succeeds exactly when
\* the input is at its end or the next byte is 0xFF, which it consumes;
\* any other next byte gives TrailingData, so from_slice (new, one decode,
\* end) fails on such input.
C14_TrailingData ==
    [][(/\ pc = "de"
        /\ pc' \in {"ended", "failed"}
        /\ sent # <<>>
        /\ result.ok) =>
           LET eof == de.index = Len(input)
               eos == ~eof /\ input[de.index + 1] = 255
           IN  /\ result'.ok <=> (eof \/ eos)
               /\ result'.ok <=> pc' = "ended"
               /\ ~result'.ok => result' = Err("TrailingData")
               /\ eof => de'.index = de.index
               /\ eos => de'.index = de.index + 1]_vars

C14_Witness ==
    /\ pc = "failed"
    /\ Len(sent) = 1
    /\ sent[1] = Ok([tag |-> "array", v |-> <<>>])
    /\ result = Err("TrailingData")
    /\ input[de.index] = 33

\* a step in which a top-level decode returns RecursionLimitExceeded
Refused ==
    /\ Len(sent') = Len(sent) + 1
    /\ result' = Err("RecursionLimitExceeded")

\* a step in which a descent into an array or a map is let through
Descended == Len(stack') = Len(stack) + 1

\* the first decode of a document of n nested arrays and nothing more
NestedArrays(n) ==
    /\ pc = "de"
    /\ sent # <<>>
    /\ input = DocHeader \o Openers(n) \o Closers(n)

\* C25 as stated: a descent is refused only when the remaining budget is
\* already zero as it is attempted, so that a document of exactly 128
\* nested arrays is accepted.
C25_RefusedAtZero ==
    /\ [][Refused => de.remaining_depth = 0]_vars
    /\ [](NestedArrays(128) => sent[1].ok)

\* C25, amended: entering an array or a map takes one from the budget and
\* is refused with RecursionLimitExceeded exactly when that brings it to
\* zero, that is when the remaining budget is 1 as the descent is
\* attempted; with 2 or more left it is let through and leaves one less.
\* A document of 127 nested arrays is accepted, the 128th opener of a
\* document of 128 is refused.
C25_RefusedAtOne ==
    /\ [][/\ Refused => de.remaining_depth = 1
          /\ Descended => /\ de.remaining_depth >= 2
                          /\ de'.remaining_depth = de.remaining_depth - 1]_vars
    /\ [](/\ NestedArrays(127) => sent[1].ok
          /\ NestedArrays(128) =>
                 sent[1] = Err("RecursionLimitExceeded"))

C25_Witness ==
    /\ NestedArrays(128)
    /\ Len(sent) = 1
    /\ result = Err("RecursionLimitExceeded")
    /\ de.index = 4 + 128

\* the byte the reader is at, none at the end of the input
NextByte ==
    IF de.index < Len(input) THEN Some(input[de.index + 1]) ELSE None

\* the decode is where an array element or closer is expected, or where a
\* map key or closer is
Expecting(f) == pc = "decoding" /\ Last(stack).f = f

\* a step in which the top-level decode returns the error err
Fails(err) == Len(sent') = Len(sent) + 1 /\ result' = Err(err)

\* a step in which the innermost container is closed and yields its value
Closed ==
    /\ de'.index = de.index + 1
    /\ \/ Len(sent') = Len(sent) /\ Len(stack') = Len(stack) - 1
       \/ Len(sent') = Len(sent) + 1 /\ Len(stack) = 1 /\ result'.ok

\* the closer of an array is 0xF9 and no other token, that of a map 0xFB;
\* the other closer and the end of the input are errors
Framed(f, closer, other, eof) ==
    Expecting(f) =>
        /\ Closed <=> NextByte = Some(closer)
        /\ NextByte = Some(other) => Len(sent') = Len(sent) + 1 /\ ~result'.ok
        /\ NextByte = None => Fails(eof)

\* a step in which a decode inside a container fails for want of input
FailsAtEof ==
    /\ pc = "decoding"
    /\ \/ Fails("EofWhileParsingArray")
       \/ Fails("EofWhileParsingMap")
       \/ Fails("EofWhileParsingValue")

\* C27 as stated: an array is closed only by 0xF9 and a map only by 0xFB;
\* 0xFB in an array, 0xF9 in a map and the end of the input before the
\* closer end the decode in an error, which for the end of the input is
\* EofWhileParsingArray or EofWhileParsingMap.
C27_EofInContainer ==
    [][/\ Framed("array", 249, 251, "EofWhileParsingArray")
       /\ Framed("map", 251, 249, "EofWhileParsingMap")
       /\ FailsAtEof => \/ Fails("EofWhileParsingArray")
                        \/ Fails("EofWhileParsingMap")]_vars

\* C27, amended: as stated, but the end of the input is reported as
\* EofWhileParsingArray where an array element or closer is expected, as
\* EofWhileParsingMap where a map key or closer is expected, and as
\* EofWhileParsingValue inside a token or where the value of a map entry
\* is expected.
C27_Framing ==
    [][/\ Framed("array", 249, 251, "EofWhileParsingArray")
       /\ Framed("map", 251, 249, "EofWhileParsingMap")
       /\ FailsAtEof =>
              IF NextByte = None
              THEN Fails(IF Last(stack).f = "array"
                         THEN "EofWhileParsingArray"
                         ELSE "EofWhileParsingMap")
              ELSE Fails("EofWhileParsingValue")]_vars

\* a map that ends after a key
C27_Witness ==
    /\ pc = "de"
    /\ input = DocHeader \o <<250, 128, 97>>
    /\ sent = <<Err("EofWhileParsingValue")>>
    /\ de.index = Len(input)

-----------------------------------------------------------------------------
(* Streams: into_iter over a Deserializer, then next any number of times.  *)
(* `writer` is the wire: a header, the encodings of the values of `input`, *)
(* and a trailer; `sent` is what next has returned so far.                 *)

\* the values of a stream, and the encoding of each
WireKinds == {"unit", "bool", "array", "object"}

WireValue(kind) ==
    CASE kind = "unit" -> [tag |-> "unit"]
      [] kind = "bool" -> [tag |-> "bool", v |-> TRUE]
      [] kind = "array" -> [tag |-> "array", v |-> <<[tag |-> "bool", v |-> FALSE]>>]
      [] kind = "object" -> [tag |-> "object", v |-> << <<(<<97>>), [tag |-> "unit"]>> >>]

WireBytes(kind) ==
    CASE kind = "unit" -> <<33>>
      [] kind = "bool" -> <<35>>
      [] kind = "array" -> <<248, 34, 249>>
      [] kind = "object" -> <<250, 128, 97, 33, 251>>

RECURSIVE WireSeqs(_)
WireSeqs(n) ==
    IF n = 0 THEN {<<>>}
    ELSE WireSeqs(n - 1)
             \cup {Append(q, w) : q \in {x \in WireSeqs(n - 1) : Len(x) = n - 1},
                                  w \in WireKinds}

\* what follows the values: nothing, the end-of-stream token (and more), or
\* the start of something that is not a value
WireTrailers == {<<>>, <<255>>, <<255, 33>>, <<0>>, <<0, 33>>, <<248, 33>>}

RECURSIVE WireOf(_)
WireOf(q) == IF q = <<>> THEN <<>> ELSE WireBytes(Head(q)) \o WireOf(Tail(q))

InitStream ==
    /\ pc = "new"
    /\ builder = Idle
    /\ ser = Idle
    /\ \E q \in WireSeqs(MaxValues), t \in WireTrailers :
           /\ input = [values |-> [k \in 1 .. Len(q) |-> WireValue(q[k])],
                       trailer |-> t]
           /\ writer = DocHeader \o WireOf(q) \o t
    /\ de = Idle
    /\ sent = <<>>
    /\ result = None
    /\ stack = <<>>

\* Deserializer::from_slice(..).into_iter()
StreamIntoIter ==
    /\ pc = "new"
    /\ \E n \in {Deserializer_new(writer)} :
           /\ de' = IF n.ok THEN StreamDeserializer(n.v, FALSE) ELSE Idle
           /\ pc' = IF n.ok THEN "iter" ELSE "failed"
    /\ UNCHANGED <<builder, ser, writer, input, sent, result, stack>>

StreamNext ==
    /\ pc = "iter"
    /\ Len(sent) < MaxNexts
    /\ \E y \in {StreamDeserializer_next(de, writer)} :
           /\ de' = y.s
           /\ stack' = y.stack
           /\ pc' = IF y.res.some THEN "iter" ELSE "decoding"
           /\ result' = IF y.res.some THEN y.res.v ELSE result
           /\ sent' = IF y.res.some THEN Append(sent, y.res.v) ELSE sent
    /\ UNCHANGED <<builder, ser, writer, input>>

\* the decode next started goes on inside the innermost container
StreamVisit ==
    /\ pc = "decoding"
    /\ \E y \in {deserialized(de, IF Last(stack).f = "array"
                                    THEN visit_seq(de.de, writer, stack)
                                    ELSE visit_map(de.de, writer, stack))} :
           /\ de' = y.s
           /\ stack' = y.stack
           /\ pc' = IF y.res.some THEN "iter" ELSE "decoding"
           /\ result' = IF y.res.some THEN y.res.v ELSE result
           /\ sent' = IF y.res.some THEN Append(sent, y.res.v) ELSE sent
    /\ UNCHANGED <<builder, ser, writer, input>>

NextStream ==
    \/ StreamIntoIter
    \/ StreamNext
    \/ StreamVisit

SpecStream == InitStream /\ [][NextStream]_vars

\* C15: the iterator yields the values in wire order; after the last value
\* it ends if the next byte is 0xFF or the input is at its end; once it has
\* returned the end of the iteration or an error every later next returns
\* the end of the iteration, so at most one error is yielded and no value
\* follows it.
C15_StreamOrderSticky ==
    LET n == Len(input.values)
    IN  /\ \A k \in 1 .. Len(sent) :
               k <= n => sent[k] = Some(Ok(input.values[k]))
        /\ Len(sent) > n =>
               IF input.trailer = <<>> \/ input.trailer[1] = 255
               THEN sent[n + 1] = None
               ELSE sent[n + 1].some /\ ~sent[n + 1].v.ok
        /\ \A j, k \in 1 .. Len(sent) :
               (j < k /\ (sent[j] = None \/ ~sent[j].v.ok)) => sent[k] = None

C15_Witness ==
    /\ Len(sent) = MaxNexts
    /\ Len(input.values) = 2
    /\ sent[3].some
    /\ ~sent[3].v.ok

\* the iteration has ended at an end-of-stream token
EndedAtMarker ==
    /\ pc = "iter"
    /\ de.done
    /\ input.trailer # <<>> /\ input.trailer[1] = 255
    /\ Len(sent) > Len(input.values)

\* C24: when the iterator stops at the end-of-stream token it has consumed
\* the 0xFF and nothing after it: the bytes that follow the first top-level
\* 0xFF are still in the reader, for a slice as for an IoRead that peeks
\* and consumes the token.
C24_StopAtEos ==
    EndedAtMarker =>
        /\ Drop(writer, de.de.index) = Tail(input.trailer)
        /\ \A chunk \in 1 .. MaxChunk :
               LET io == IoRead(Drop(writer, de.de.index - 1), <<>>)
               IN  /\ IoRead_peek(io, chunk) = Some(255)
                   /\ IoRead_consume(io).reader = Tail(input.trailer)

\* two values, the token and one more byte; next was called again after the
\* iteration had ended
C24_Witness ==
    /\ EndedAtMarker
    /\ Len(input.values) = 2
    /\ input.trailer = <<255, 33>>
    /\ Len(sent) = 4
    /\ de.de.index = Len(writer) - 1

-----------------------------------------------------------------------------
(* The three readers side by side over one input: each call of the Read    *)
(* trait is made on a SliceRead, a MutSliceRead and an IoRead at once.     *)
(* `de` holds the three readers and `result` what each returned last.  A   *)
(* Deserializer calls consume only after a peek that found a byte, and     *)
(* returns an error when read or read_until find too little.               *)

ReadBytes == {0, 7, 252}

RECURSIVE ReadInputsOfLen(_)
ReadInputsOfLen(n) ==
    IF n = 0 THEN {<<>>}
    ELSE {Append(q, b) : q \in ReadInputsOfLen(n - 1), b \in ReadBytes}

Readers(slice, mut, io) == [slice |-> slice, mut |-> mut, io |-> io]

InitRead ==
    /\ pc = "read"
    /\ builder = Idle
    /\ ser = Idle
    /\ writer = <<>>
    /\ \E n \in 0 .. MaxReadLen : input \in ReadInputsOfLen(n)
    /\ de = Readers(Reader(input, 0), input, IoRead(input, <<>>))
    /\ sent = <<>>
    /\ result = None
    /\ stack = <<>>

ReadNext(chunk) ==
    /\ pc \in {"read", "peeked"}
    /\ \E a \in {SliceRead_next(de.slice)}, b \in {MutSliceRead_next(de.mut)},
          c \in {IoRead_next(de.io, chunk)} :
           /\ de' = Readers(a.r, b.r, c.r)
           /\ result' = Readers(a.v, b.v, c.v)
    /\ pc' = "read"
    /\ UNCHANGED <<builder, ser, writer, input, sent, stack>>

ReadPeek(chunk) ==
    /\ pc \in {"read", "peeked"}
    /\ result' = Readers(SliceRead_peek(de.slice), MutSliceRead_peek(de.mut),
                         IoRead_peek(de.io, chunk))
    /\ pc' = IF SliceRead_peek(de.slice).some THEN "peeked" ELSE "read"
    /\ UNCHANGED <<builder, ser, writer, de, input, sent, stack>>

ReadConsume ==
    /\ pc = "peeked"
    /\ de' = Readers(SliceRead_consume(de.slice), MutSliceRead_consume(de.mut),
                     IoRead_consume(de.io))
    /\ result' = None
    /\ pc' = "read"
    /\ UNCHANGED <<builder, ser, writer, input, sent, stack>>

\* read and read_mut
ReadRead(n, chunk) ==
    /\ pc \in {"read", "peeked"}
    /\ \E a \in {SliceRead_read(de.slice, n)}, b \in {MutSliceRead_read(de.mut, n)},
          c \in {IoRead_read(de.io, n, chunk)} :
           /\ de' = Readers(a.r, b.r, c.r)
           /\ result' = Readers(a.v, b.v, c.v)
           /\ pc' = IF a.v.some THEN "read" ELSE "failed"
    /\ UNCHANGED <<builder, ser, writer, input, sent, stack>>

ReadUntil(end, chunk) ==
    /\ pc \in {"read", "peeked"}
    /\ \E a \in {SliceRead_read_until(de.slice, end)},
          b \in {MutSliceRead_read_until(de.mut, end)},
          c \in {IoRead_read_until(de.io, end, chunk)} :
           /\ de' = Readers(a.r, b.r, c.r)
           /\ result' = Readers(a.v, b.v, c.v)
           /\ pc' = IF a.v.some THEN "read" ELSE "failed"
    /\ UNCHANGED <<builder, ser, writer, input, sent, stack>>

NextRead ==
    \/ \E chunk \in 1 .. MaxChunk : ReadNext(chunk)
    \/ \E chunk \in 1 .. MaxChunk : ReadPeek(chunk)
    \/ ReadConsume
    \/ \E n \in 0 .. MaxReadLen, chunk \in 1 .. MaxChunk : ReadRead(n, chunk)
    \/ \E chunk \in 1 .. MaxChunk : ReadUntil(252, chunk)

SpecRead == InitRead /\ [][NextRead]_vars

\* what each reader has left to hand out
Remaining(readers) ==
    Readers(Drop(readers.slice.slice, readers.slice.index), readers.mut,
            readers.io.reader)

-----------------------------------------------------------------------------
(* Unsigned integers on their own: serialize_u64 or serialize_u128, then   *)
(* parse_value on the bytes it wrote.                                      *)

UnsignedSamples(w) ==
    {LowMask(k, w) : k \in 0 .. w} \cup {OneHot(k, w) : k \in 0 .. (w - 1)}

InitUInt ==
    /\ pc = "start"
    /\ input \in [ty : {"u64"}, v : UnsignedSamples(64)]
                 \cup [ty : {"u128"}, v : UnsignedSamples(128)]
    /\ writer = <<>>
    /\ builder = Idle /\ ser = Idle
    /\ de = PlainDe
    /\ sent = <<>>
    /\ result = None
    /\ stack = <<>>

UIntWriteU64 ==
    /\ pc = "start"
    /\ input.ty = "u64"
    /\ writer' = writer \o serialize_u64(input.v)
    /\ pc' = "written"
    /\ UNCHANGED <<builder, ser, de, input, sent, result, stack>>

UIntWriteU128 ==
    /\ pc = "start"
    /\ input.ty = "u128"
    /\ writer' = writer \o serialize_u128(input.v)
    /\ pc' = "written"
    /\ UNCHANGED <<builder, ser, de, input, sent, result, stack>>

UIntRead ==
    /\ pc = "written"
    /\ \E p \in {parse_value(de, writer)} :
           /\ de' = p.d
           /\ result' = p.res
    /\ pc' = "read"
    /\ UNCHANGED <<builder, ser, writer, input, sent, stack>>

NextUInt == UIntWriteU64 \/ UIntWriteU128 \/ UIntRead

SpecUInt == InitUInt /\ [][NextUInt]_vars

\* the decoder handed the visitor the non-negative integer v
UIntDecodedAs(v) ==
    /\ result.ok
    /\ result.v.tag \in {"i32", "i64", "u64", "i128", "u128"}
    /\ result.v.tag \in {"i32", "i64", "i128"} =>
           result.v.v[Width(result.v.v) - 1] = 0
    /\ ZeroExtend(result.v.v, 128) = ZeroExtend(v, 128)

\* C19: a u64 or u128 above i64::MAX is written as the token 0x26 with a
\* two's-complement payload that has a zero byte in front when its top bit
\* would otherwise be set, and the decoder yields the same non-negative
\* value.
C19_UnsignedBigInteger ==
    (pc \in {"written", "read"} /\ ~i64_try_from_unsigned(input.v).some) =>
        /\ writer[1] = 38
        /\ pc = "read" => UIntDecodedAs(input.v) /\ de.index = Len(writer)

-----------------------------------------------------------------------------
(* Big numbers on their own: a BigInteger or a BigDecimal serialized by a  *)
(* Serializer fresh from any Builder.                                      *)

BigBytes == {<<0>>, <<1, 2>>, <<255, 255, 255, 255, 255, 255, 255>>, Repeat(255, 30)}

BigScales == {FromInt(0, 32), FromInt(-10, 32), FromInt(100, 32)}

BigBuilders ==
    {[raw_binary |-> r, shared_strings |-> v, shared_properties |-> k,
      touched |-> TRUE] : r \in BOOLEAN, v \in BOOLEAN, k \in BOOLEAN}

InitBig ==
    /\ pc = "start"
    /\ builder \in BigBuilders
    /\ ser = Builder_build(builder).ser
    /\ writer = <<>>
    /\ de = Idle
    /\ input \in [ty : {"big_integer"}, bytes : BigBytes]
                     \cup [ty : {"big_decimal"}, scale : BigScales, bytes : BigBytes]
    /\ sent = <<>>
    /\ result = None
    /\ stack = <<>>

BigIntegerSerialize ==
    /\ pc = "start"
    /\ input.ty = "big_integer"
    /\ \E w \in {BigInteger_serialize(ser, input.bytes)} :
           /\ ser' = w.ser
           /\ writer' = writer \o w.out
    /\ pc' = "written"
    /\ UNCHANGED <<builder, de, input, sent, result, stack>>

BigDecimalSerialize ==
    /\ pc = "start"
    /\ input.ty = "big_decimal"
    /\ \E w \in {BigDecimal_serialize(ser, input.scale, input.bytes)} :
           /\ ser' = w.ser
           /\ writer' = writer \o w.out
    /\ pc' = "written"
    /\ UNCHANGED <<builder, de, input, sent, result, stack>>

NextBig == BigIntegerSerialize \/ BigDecimalSerialize

SpecBig == InitBig /\ [][NextBig]_vars

\* C20: a BigInteger is written as 0x26 and the 7-bit packing of its
\* bytes, a BigDecimal as 0x2A, the VInt of the ZigZag of its scale and the
\* 7-bit packing of its unscaled bytes; no map opener, sentinel key or map
\* closer is written.
C20_BigNumberTokens ==
    pc = "written" =>
        /\ input.ty = "big_integer" =>
               writer = <<38>> \o serialize_7_bit_binary(input.bytes)
        /\ input.ty = "big_decimal" =>
               writer = <<42>> \o serialize_vint(zigzag_of_i32(input.scale))
                            \o serialize_7_bit_binary(input.bytes)
        /\ writer[1] # 250
        /\ writer[Len(writer)] # 251

-----------------------------------------------------------------------------
(* Enums on their own: to_vec of a TestEnum and of the value the tests     *)
(* compare it to, under any Builder, then from_slice::<TestEnum>.          *)

EnumInts == {FromInt(n, 32) : n \in {-1, 0, 16, 42, 1000}}

TestEnums ==
    {NoPayload("Unit")}
    \cup {[NoPayload("Newtype") EXCEPT !.a = a] : a \in EnumInts}
    \cup {[variant |-> v, a |-> a, b |-> b] :
              v \in {"Tuple", "Struct"}, a \in EnumInts, b \in BOOLEAN}

InitEnum ==
    /\ pc = "start"
    /\ builder \in BigBuilders
    /\ ser = Builder_build(builder).ser
    /\ writer = Builder_build(builder).out
    /\ de = Idle
    /\ input \in TestEnums
    /\ sent = <<>>
    /\ result = None
    /\ stack = <<>>

\* to_vec(&expected)
EnumSerialize ==
    /\ pc = "start"
    /\ \E w \in {TestEnum_serialize(ser, input)} :
           /\ ser' = w.ser
           /\ writer' = writer \o w.out
    /\ pc' = "written"
    /\ UNCHANGED <<builder, de, input, sent, result, stack>>

\* to_vec of the equivalent value, with a Serializer of its own
EnumEquivalent ==
    /\ pc = "written"
    /\ \E b \in {Builder_build(builder)} :
           sent' = b.out \o Equivalent_serialize(b.ser, input).out
    /\ pc' = "compared"
    /\ UNCHANGED <<builder, ser, writer, de, input, result, stack>>

\* from_slice::<TestEnum>(&bytes)
EnumFromSlice ==
    /\ pc = "compared"
    /\ \E n \in {Deserializer_new(writer)} :
           IF ~n.ok THEN de' = de /\ result' = n
           ELSE \E v \in {deserialize_enum(n.v, writer)} :
                    IF ~v.res.ok THEN de' = v.d /\ result' = v.res
                    ELSE \E e \in {Deserializer_end(v.d, writer)} :
                             /\ de' = e.d
                             /\ result' = IF e.res.ok THEN v.res ELSE e.res
    /\ pc' = "read"
    /\ UNCHANGED <<builder, ser, writer, input, sent, stack>>

NextEnum == EnumSerialize \/ EnumEquivalent \/ EnumFromSlice

SpecEnum == InitEnum /\ [][NextEnum]_vars

\* the literal key token of an ASCII name of at most 64 bytes
KeyLiteral(name) == <<127 + Len(name)>> \o name

\* the bytes the claim gives for a TestEnum, after the header
EnumForm(e) ==
    LET name == VariantName(e.variant)
    IN  CASE e.variant = "Unit" -> <<63 + Len(name)>> \o name
          [] e.variant = "Newtype" ->
                 <<250>> \o KeyLiteral(name) \o serialize_i32(e.a) \o <<251>>
          [] e.variant = "Tuple" ->
                 <<250>> \o KeyLiteral(name)
                     \o <<248>> \o serialize_i32(e.a) \o serialize_bool(e.b)
                     \o <<249>> \o <<251>>
          [] e.variant = "Struct" ->
                 <<250>> \o KeyLiteral(name)
                     \o <<250>> \o KeyLiteral(FieldA) \o serialize_i32(e.a)
                     \o KeyLiteral(FieldB) \o serialize_bool(e.b)
                     \o <<251>> \o <<251>>

\* C21: a unit variant is written as its name string; a newtype, tuple or
\* struct variant as 0xFA, the key of its name, the payload (the inner
\* value, 0xF8..0xF9 or 0xFA..0xFB) and 0xFB, the same bytes as the
\* equivalent single-field struct; and from_slice on these bytes yields the
\* variant that was serialized.
C21_EnumEncoding ==
    /\ pc # "start" => writer = Take(writer, 4) \o EnumForm(input)
    /\ pc \in {"compared", "read"} => writer = sent
    /\ pc = "read" => result = Ok(input)

-----------------------------------------------------------------------------
(* Map keys on their own: run_test of test/maps.rs for a key of each type, *)
(* under any Builder.                                                      *)

KeyNumbers(ty) ==
    {n \in {0, 1, 9, 10, 42, 127, 128, 255, 256, 65535, 2147483647,
            -1, -10, -128, -32768, -2147483647} :
         MinOf(ty) <= n /\ n <= MaxOf(ty)}

KeyStrings == {<<104, 101, 108, 108, 111>>, <<49>>, <<195, 169>>, <<>>}

TestKeys ==
    UNION {{[ty |-> ty, n |-> n, s |-> <<>>] : n \in KeyNumbers(ty)} :
               ty \in IntegerTypes}
    \cup {[ty |-> "enum", n |-> 0, s |-> <<>>]}
    \cup {[ty |-> "newtype", n |-> 0, s |-> str] : str \in KeyStrings}

MapValue == <<97>>

InitKey ==
    /\ pc = "start"
    /\ builder \in BigBuilders
    /\ ser = Builder_build(builder).ser
    /\ writer = Builder_build(builder).out
    /\ de = Idle
    /\ input \in TestKeys
    /\ sent = <<>>
    /\ result = None
    /\ stack = <<>>

\* to_vec of the map keyed by the string form of the key
KeyExpected ==
    /\ pc = "start"
    /\ \E b \in {Builder_build(builder)} :
           sent' = b.out \o HashMap_serialize(
                                b.ser, [ty |-> "string", n |-> 0,
                                        s |-> to_string(input)], MapValue).out
    /\ pc' = "expected"
    /\ UNCHANGED <<builder, ser, writer, de, input, result, stack>>

\* to_vec of the map keyed by the typed key
KeyActual ==
    /\ pc = "expected"
    /\ \E w \in {HashMap_serialize(ser, input, MapValue)} :
           /\ ser' = w.ser
           /\ writer' = writer \o w.out
           /\ result' = w.res
    /\ pc' = "actual"
    /\ UNCHANGED <<builder, de, input, sent, stack>>

\* from_slice::<HashMap<K, String>>(&expected_bytes)
KeyFromSlice ==
    /\ pc = "actual"
    /\ \E n \in {Deserializer_new(sent)} :
           IF ~n.ok THEN de' = de /\ result' = n
           ELSE \E v \in {HashMap_deserialize(n.v, sent, input.ty)} :
                    IF ~v.res.ok THEN de' = v.d /\ result' = v.res
                    ELSE \E e \in {Deserializer_end(v.d, sent)} :
                             /\ de' = e.d
                             /\ result' = IF e.res.ok THEN v.res ELSE e.res
    /\ pc' = "read"
    /\ UNCHANGED <<builder, ser, writer, input, sent, stack>>

NextKey == KeyExpected \/ KeyActual \/ KeyFromSlice

SpecKey == InitKey /\ [][NextKey]_vars

\* C22: a map keyed by an integer of any width, a unit variant or a
\* newtype around a string serializes successfully, to the bytes of the
\* same map keyed by the key's string form, and these bytes decode back to
\* the typed key.
C22_StringLikeKeys ==
    /\ pc = "actual" => result.ok
    /\ pc \in {"actual", "read"} => writer = sent
    /\ pc = "read" => result = Ok(<< <<input, MapValue>> >>)

-----------------------------------------------------------------------------
(* The caches on their own: with both caches enabled, strings are written  *)
(* one at a time in value position or in key position, each either new or  *)
(* the one the decoder holds at a chosen index, and each token is          *)
(* read back as soon as it is written.  `writer` is the token just         *)
(* written, `sent` the number of new strings so far, `input` the string    *)
(* and the sizes of the two caches before the call.                        *)

\* the n-th new string: two ASCII bytes
FreshString(n) == <<48 + (n \div 64), 48 + (n % 64)>>

\* the indexes of the strings that are written again
RepeatIndexes == {0, 30, 31, 63, 64, LIMIT - 1}

CacheSerializer ==
    [raw_binary |-> FALSE, shared_strings |-> Some(EmptyMap),
     shared_properties |-> Some(EmptyMap)]

CacheDeserializer ==
    [index |-> 0, remaining_depth |-> 128,
     shared_strings |-> Some(EmptyVec), shared_properties |-> Some(EmptyVec)]

InitCache ==
    /\ pc = "ser"
    /\ builder \in {"value", "key"}
    /\ ser = CacheSerializer
    /\ de = CacheDeserializer
    /\ writer = <<>>
    /\ input = None
    /\ sent = 0
    /\ result = None
    /\ stack = <<>>

\* the cache of the position this run writes in
EncoderCache(s) ==
    IF builder = "value" THEN s.shared_strings.v ELSE s.shared_properties.v
DecoderCache(d) ==
    IF builder = "value" THEN d.shared_strings.v ELSE d.shared_properties.v

\* serialize_str, or serialize_key of a str, for the string v
CacheWrite(v) ==
    /\ \E w \in {IF builder = "value" THEN serialize_str(ser, v)
                 ELSE serialize_maybe_static_str(ser, v)} :
           /\ ser' = w.ser
           /\ writer' = w.out
    /\ input' = Some([v |-> v, before |-> Cardinality(DOMAIN EncoderCache(ser)),
                      dbefore |-> Len(DecoderCache(de))])
    /\ result' = None
    /\ pc' = "de"
    /\ UNCHANGED <<builder, de, stack>>

CacheWriteFresh ==
    /\ pc = "ser"
    /\ sent < MaxInterns
    /\ sent' = sent + 1
    /\ CacheWrite(FreshString(sent))

CacheWriteRepeat(i) ==
    /\ pc = "ser"
    /\ i < Len(DecoderCache(de))
    /\ CacheWrite(DecoderCache(de)[i + 1])
    /\ UNCHANGED sent

\* parse_value, or the KeyDeserializer's parse_str, on the token; the
\* next token will be read from its first byte
CacheRead ==
    /\ pc = "de"
    /\ \E p \in {IF builder = "value" THEN parse_value(de, writer)
                 ELSE parse_str(de, writer)} :
           /\ de' = [p.d EXCEPT !.index = 0]
           /\ result' = p.res
    /\ pc' = "ser"
    /\ UNCHANGED <<builder, ser, writer, input, sent, stack>>

NextCache ==
    \/ CacheWriteFresh
    \/ \E i \in RepeatIndexes : CacheWriteRepeat(i)
    \/ CacheRead

SpecCache == InitCache /\ [][NextCache]_vars

\* the index a back-reference token names, None for any other token
BackRefIndex(token) ==
    IF builder = "value"
    THEN IF token[1] \in 1 .. 31 THEN Some(token[1] - 1)
         ELSE IF token[1] \in 236 .. 239
         THEN Some((token[1] - 236) * 256 + token[2])
         ELSE None
    ELSE IF token[1] \in 64 .. 127 THEN Some(token[1] - 64)
         ELSE IF token[1] \in 48 .. 51 THEN Some((token[1] - 48) * 256 + token[2])
         ELSE None

\* C23: each cache holds at most 1024 entries at the indexes 0..n-1;
\* interning into a cache of 1024 entries empties it and stores the new
\* string at index 0; every back-reference written names an index in
\* 0..1023.
C23_CacheBound ==
    /\ \A c \in {ser.shared_strings.v, ser.shared_properties.v} :
           /\ Cardinality(DOMAIN c) <= 1024
           /\ {c[v] : v \in DOMAIN c} = 0 .. (Cardinality(DOMAIN c) - 1)
    /\ \A c \in {de.shared_strings.v, de.shared_properties.v} : Len(c) <= 1024
    /\ input # None =>
           /\ BackRefIndex(writer).some => BackRefIndex(writer).v \in 0 .. 1023
           /\ (~BackRefIndex(writer).some
               /\ input.v.before = 1024) =>
                  EncoderCache(ser) = [v \in {input.v.v} |-> 0]
           /\ (pc = "ser" /\ ~BackRefIndex(writer).some
               /\ input.v.dbefore = 1024) =>
                  DecoderCache(de) = <<input.v.v>>

\* a string has been interned into full caches on both sides, and a later
\* string written as the back-reference to index 0
C23_Witness ==
    /\ sent > 1024
    /\ pc = "ser"
    /\ BackRefIndex(writer) = Some(0)
    /\ result = Ok([tag |-> "str", v |-> FreshString(1024)])
    /\ Len(DecoderCache(de)) = 1

-----------------------------------------------------------------------------
(* Big integers read on their own: parse_value on the token 0x26, the      *)
(* length of the payload and its packed bytes.  `input` describes the      *)
(* token: the payload length n, the first packed byte and the others.      *)

\* the number of packed bytes of a payload of raw_len bytes
PackedLen(raw_len) ==
    (raw_len \div 7) * 8 + (IF raw_len % 7 = 0 THEN 0 ELSE (raw_len % 7) + 1)

\* 0x26, the length as a one-byte VInt, the packed bytes
BigIntToken(t) ==
    <<38, 128 + t.n>>
        \o [k \in 1 .. PackedLen(t.n) |-> IF k = 1 THEN t.lead ELSE t.fill]

InitBigInt ==
    /\ pc = "written"
    /\ builder = Idle /\ ser = Idle
    /\ de = PlainDe
    /\ input \in [n : 0 .. MaxBigLen, lead : {0, 64, 127}, fill : {0, 42, 127}]
    /\ writer = BigIntToken(input)
    /\ sent = <<>>
    /\ result = None
    /\ stack = <<>>

BigIntRead ==
    /\ pc = "written"
    /\ \E p \in {parse_value(de, writer)} :
           /\ de' = p.d
           /\ result' = p.res
    /\ pc' = "read"
    /\ UNCHANGED <<builder, ser, writer, input, sent, stack>>

NextBigInt == BigIntRead

SpecBigInt == InitBigInt /\ [][NextBigInt]_vars

\* the payload of the token, unpacked
BigIntPayload == parse_7_bit_binary(Reader(writer, 1)).res.v

\* C28: a big integer with a payload of n bytes is visited as the
\* sign-extended i64 for 1 <= n <= 8, as the u64 of the last 8 bytes for
\* n = 9 with a leading zero byte, as the sign-extended i128 for any other
\* n <= 16, as the u128 of the last 16 bytes for n = 17 with a leading
\* zero byte, and in every other case (empty or longer) as the structured
\* event that carries the payload bytes unchanged.
C28_BigIntegerClass ==
    pc = "read" =>
        LET buf == BigIntPayload
            n == Len(buf)
            signed(w) == SignExtend(FromBytesBE(buf, 8 * n), w)
        IN  /\ n = input.n
            /\ de.index = Len(writer)
            /\ result =
                   Ok(IF n \in 1 .. 8 THEN [tag |-> "i64", v |-> signed(64)]
                      ELSE IF n = 9 /\ buf[1] = 0
                      THEN [tag |-> "u64", v |-> FromBytesBE(Tail(buf), 64)]
                      ELSE IF n \in 9 .. 16
                      THEN [tag |-> "i128", v |-> signed(128)]
                      ELSE IF n = 17 /\ buf[1] = 0
                      THEN [tag |-> "u128", v |-> FromBytesBE(Tail(buf), 128)]
                      ELSE [tag |-> "big_integer", v |-> buf])

\* a payload of 9 bytes whose first byte is 0x80 is read as a negative i128
C28_Witness ==
    /\ pc = "read"
    /\ input = [n |-> 9, lead |-> 64, fill |-> 0]
    /\ BigIntPayload = <<128, 0, 0, 0, 0, 0, 0, 0, 0>>
    /\ result.ok
    /\ result.v.tag = "i128"
    /\ \A i \in 0 .. 127 : result.v.v[i] = (IF i >= 71 THEN 1 ELSE 0)

-----------------------------------------------------------------------------
(* de/big_decimal_deserializer.rs and de/big_integer_deserializer.rs: the  *)
(* MapAccess through which a visitor reads a big decimal or a big integer  *)
(* as a structured event.  A stage is "Scale", "Buf" or "None".            *)

\* BigDecimalDeserializer::next_key_seed: the key of the stage, or the end
BigDecimalDeserializer_next_key_seed(stage) ==
    IF stage = "Scale" THEN Some(BigDecimal_SCALE_FIELD_NAME)
    ELSE IF stage = "Buf" THEN Some(BigDecimal_VALUE_FIELD_NAME)
    ELSE None

\* BigDecimalValueDeserializer::deserialize_any
BigDecimalValueDeserializer_deserialize_any(d, slice, stage) ==
    LET scaled(vint) ==
            IF ~vint.res.ok THEN Parsed(d, vint.r, vint.res)
            ELSE Parsed(d, vint.r,
                        Ok([tag |-> "i32",
                            v |-> zigzag_i32(Truncate(vint.res.v, 32))]))
        buffered(bin) ==
            IF ~bin.res.ok THEN Parsed(d, bin.r, bin.res)
            ELSE Parsed(d, bin.r, Ok([tag |-> "bytes", v |-> bin.res.v]))
    IN  IF stage = "Scale" THEN scaled(parse_vint(Rd(d, slice), 5))
        ELSE buffered(parse_7_bit_binary(Rd(d, slice)))

\* a next_value_seed that leaves the stage Buf as it is
BigDecimalDeserializer_next_value_seed_stuck(d, slice, stage) ==
    LET with(p) ==
            [d |-> p.d, res |-> p.res, stage |-> "Buf"]
    IN  with(BigDecimalValueDeserializer_deserialize_any(d, slice, stage))

\* BigDecimalDeserializer::next_value_seed: the stage moves on, then the
\* value of the stage it was in is read (it panics after the end, where no
\* visitor calls it)
BigDecimalDeserializer_next_value_seed(d, slice, stage) ==
    LET with(p) ==
            [d |-> p.d, res |-> p.res,
             stage |-> IF stage = "Scale" THEN "Buf" ELSE "None"]
    IN  with(BigDecimalValueDeserializer_deserialize_any(d, slice, stage))

\* BigIntegerDeserializer::next_key_seed: BigIntegerFieldDeserializer
\* visits the field name, every time
BigIntegerDeserializer_next_key_seed == Some(BigInteger_FIELD_NAME)

\* BigIntegerDeserializer::next_value_seed: BigIntegerValueDeserializer
\* reads a 7-bit payload from the Deserializer
BigIntegerDeserializer_next_value_seed(d, slice) ==
    LET with(bin) ==
            IF ~bin.res.ok THEN Parsed(d, bin.r, bin.res)
            ELSE Parsed(d, bin.r, Ok([tag |-> "bytes", v |-> bin.res.v]))
    IN  with(parse_7_bit_binary(Rd(d, slice)))

-----------------------------------------------------------------------------
(* Structured events on their own: the token 0x2A or 0x26 starts the       *)
(* event, and a visitor asks for keys and values in turn, up to MaxEntries *)
(* entries.  `writer` is the input, `input` what it was made of, `stack`   *)
(* the MapAccess (its kind, its stage, the key it gave last), and `sent`   *)
(* the entries the visitor has got, each with the reader's index after it. *)

\* a scale as a VInt, and the i32 it stands for
ScaleCases ==
    {[bytes |-> <<128>>, ok |-> TRUE, v |-> FromInt(0, 32)],
     [bytes |-> <<129>>, ok |-> TRUE, v |-> FromInt(-1, 32)],
     [bytes |-> <<130>>, ok |-> TRUE, v |-> FromInt(1, 32)],
     [bytes |-> <<1, 128>>, ok |-> TRUE, v |-> FromInt(32, 32)],
     [bytes |-> <<31, 127, 127, 127, 190>>, ok |-> TRUE, v |-> LowMask(31, 32)],
     [bytes |-> <<31, 127, 127, 127, 191>>, ok |-> TRUE, v |-> OneHot(31, 32)],
     [bytes |-> <<127, 127, 127, 127, 191>>, ok |-> TRUE, v |-> OneHot(31, 32)],
     [bytes |-> <<1, 1, 1, 1, 1, 128>>, ok |-> FALSE, v |-> Zero(32)]}

\* a 7-bit payload on the wire, and the bytes it stands for
PayloadCases ==
    {[wire |-> <<128>>, ok |-> TRUE, bytes |-> <<>>],
     [wire |-> <<129, 0, 1>>, ok |-> TRUE, bytes |-> <<1>>],
     [wire |-> <<129, 127, 1>>, ok |-> TRUE, bytes |-> <<255>>],
     [wire |-> <<135, 127, 127, 127, 127, 127, 127, 127, 127>>, ok |-> TRUE,
      bytes |-> <<255, 255, 255, 255, 255, 255, 255>>],
     [wire |-> <<136, 0>>, ok |-> FALSE, bytes |-> <<>>]}

\* what follows the event in the input
EventTrailers == {<<>>, <<128>>, <<129, 0, 1>>, <<255>>}

NoAccess == [kind |-> "none", stage |-> "None", key |-> None]

InitEvent ==
    /\ pc = "token"
    /\ builder = Idle /\ ser = Idle
    /\ de = PlainDe
    /\ input \in [kind : {"big_decimal", "big_integer"}, scale : ScaleCases,
                  payload : PayloadCases, trailer : EventTrailers]
    /\ input.kind = "big_integer" => input.scale.bytes = <<128>>
    /\ writer = IF input.kind = "big_decimal"
                THEN <<42>> \o input.scale.bytes \o input.payload.wire
                         \o input.trailer
                ELSE <<38>> \o input.payload.wire \o input.trailer
    /\ sent = <<>>
    /\ result = None
    /\ stack = NoAccess

\* 0x2A: visit_map(BigDecimalDeserializer { de, stage: Some(Scale) })
EventBigDecimal ==
    /\ pc = "token"
    /\ SliceRead_peek(Rd(de, writer)) = Some(42)
    /\ de' = [de EXCEPT !.index = SliceRead_consume(Rd(de, writer)).index]
    /\ stack' = [kind |-> "big_decimal", stage |-> "Scale", key |-> None]
    /\ pc' = "key"
    /\ UNCHANGED <<builder, ser, writer, input, sent, result>>

\* 0x26: visit_map(BigIntegerDeserializer { de })
EventBigInteger ==
    /\ pc = "token"
    /\ SliceRead_peek(Rd(de, writer)) = Some(38)
    /\ de' = [de EXCEPT !.index = SliceRead_consume(Rd(de, writer)).index]
    /\ stack' = [kind |-> "big_integer", stage |-> "None", key |-> None]
    /\ pc' = "key"
    /\ UNCHANGED <<builder, ser, writer, input, sent, result>>

\* the visitor has asked for a key and got k
EventKey(k) ==
    /\ stack' = [stack EXCEPT !.key = k]
    /\ pc' = IF k.some THEN "value" ELSE "end"
    /\ UNCHANGED <<builder, ser, writer, input, sent, result, de>>

\* the visitor has asked for the value and got p
EventValue(p) ==
    /\ de' = p.d
    /\ result' = p.res
    /\ sent' = IF p.res.ok
               THEN Append(sent, [key |-> stack.key.v, value |-> p.res.v,
                                  at |-> p.d.index])
               ELSE sent
    /\ pc' = IF p.res.ok THEN "key" ELSE "failed"
    /\ UNCHANGED <<builder, ser, writer, input>>

BigDecimalNextKey ==
    /\ pc = "key"
    /\ stack.kind = "big_decimal"
    /\ Len(sent) < MaxEntries
    /\ EventKey(BigDecimalDeserializer_next_key_seed(stack.stage))

BigDecimalNextValue ==
    /\ pc = "value"
    /\ stack.kind = "big_decimal"
    /\ \E p \in {BigDecimalDeserializer_next_value_seed(de, writer, stack.stage)} :
           /\ EventValue(p)
           /\ stack' = [stack EXCEPT !.stage = p.stage]

BigIntegerNextKey ==
    /\ pc = "key"
    /\ stack.kind = "big_integer"
    /\ Len(sent) < MaxEntries
    /\ EventKey(BigIntegerDeserializer_next_key_seed)

BigIntegerNextValue ==
    /\ pc = "value"
    /\ stack.kind = "big_integer"
    /\ EventValue(BigIntegerDeserializer_next_value_seed(de, writer))
    /\ UNCHANGED stack

NextEvent ==
    \/ EventBigDecimal
    \/ EventBigInteger
    \/ BigDecimalNextKey
    \/ BigDecimalNextValue
    \/ BigIntegerNextKey
    \/ BigIntegerNextValue

SpecEvent == InitEvent /\ [][NextEvent]_vars

\* the reader's index after the scale, and after the payload
AfterScale == 1 + Len(input.scale.bytes)
AfterPayload ==
    IF input.kind = "big_decimal" THEN AfterScale + Len(input.payload.wire)
    ELSE 1 + Len(input.payload.wire)

\* C29: the big-decimal event goes through the stages Scale, Buf and done:
\* it presents the scale field with the ZigZag-decoded i32 read as a VInt
\* of at most 5 bytes, then the value field with the 7-bit-unpacked bytes,
\* and the next key request reports the end; the scale bytes are consumed
\* before the bytes of the unscaled value.
C29_BigDecimalStages ==
    stack.kind = "big_decimal" =>
        /\ Len(sent) <= 2
        /\ pc \in {"key", "value"} =>
               stack.stage = <<"Scale", "Buf", "None">>[Len(sent) + 1]
        /\ pc = "value" => Len(sent) < 2
        /\ pc = "end" => Len(sent) = 2 /\ de.index = AfterPayload
        /\ pc = "failed" =>
               \/ sent = <<>> /\ ~input.scale.ok
               \/ Len(sent) = 1 /\ ~input.payload.ok
        /\ sent # <<>> =>
               /\ input.scale.ok
               /\ sent[1] = [key |-> BigDecimal_SCALE_FIELD_NAME,
                             value |-> [tag |-> "i32", v |-> input.scale.v],
                             at |-> AfterScale]
        /\ Len(sent) = 2 =>
               /\ input.payload.ok
               /\ sent[2] = [key |-> BigDecimal_VALUE_FIELD_NAME,
                             value |-> [tag |-> "bytes",
                                        v |-> input.payload.bytes],
                             at |-> AfterPayload]

\* both entries of a big decimal have been read, and the end reported
C29_Witness ==
    /\ stack.kind = "big_decimal"
    /\ pc = "end"
    /\ Len(sent) = 2
    /\ sent[1].value.v = OneHot(31, 32)
    /\ sent[2].value.v = <<255>>
    /\ input.trailer = <<129, 0, 1>>

\* C30: the big-integer event presents exactly one entry: after its value
\* has been taken the next key request reports the end, so that a visitor
\* that drains every entry stops after one, having consumed only the one
\* 7-bit payload after the token 0x26.
C30_BigIntegerOneEntry ==
    stack.kind = "big_integer" =>
        /\ Len(sent) <= 1
        /\ pc = "value" => sent = <<>>
        /\ pc = "end" => Len(sent) = 1
        /\ sent # <<>> =>
               /\ sent[1] = [key |-> BigInteger_FIELD_NAME,
                             value |-> [tag |-> "bytes",
                                        v |-> input.payload.bytes],
                             at |-> AfterPayload]
               /\ de.index = AfterPayload

-----------------------------------------------------------------------------
(* Back-references on their own: a Deserializer made over each of the four *)
(* headers reads up to MaxRefs distinct short strings in value or in key   *)
(* position (`builder`), and between them back-reference tokens of every   *)
(* form; `sent` counts the strings read, `writer` is the token read last,  *)
(* and `input` the sizes of the caches before a back-reference was read.   *)

RefHeaders == {<<58, 41, 10, info>> : info \in 0 .. 3}

\* back-reference tokens of the short and of the long form
RefTokens ==
    IF builder = "value"
    THEN {<<1>>, <<2>>, <<31>>, <<236, 0>>, <<236, 31>>, <<236, 255>>,
          <<237, 0>>, <<237, 3>>, <<239, 255>>}
    ELSE {<<64>>, <<65>>, <<127>>, <<48, 0>>, <<48, 64>>, <<48, 255>>,
          <<49, 0>>, <<49, 3>>, <<51, 255>>}

\* the number of entries of a cache, none when it is not enabled
Entries(cache) == IF cache.some THEN Len(cache.v) ELSE 0

InitRef ==
    /\ pc = "new"
    /\ builder \in {"value", "key"}
    /\ ser = Idle
    /\ de = Idle
    /\ writer \in RefHeaders
    /\ input = None
    /\ sent = 0
    /\ result = None
    /\ stack = <<>>

\* Deserializer::new over the header; each token after it is read from
\* its first byte
RefNew ==
    /\ pc = "new"
    /\ de' = [Deserializer_new(writer).v EXCEPT !.index = 0]
    /\ pc' = "de"
    /\ UNCHANGED <<builder, ser, writer, input, sent, result, stack>>

\* parse_value, or the KeyDeserializer's parse_str, on one token
RefRead(token) ==
    /\ writer' = token
    /\ \E p \in {IF builder = "value" THEN parse_value(de, token)
                 ELSE parse_str(de, token)} :
           /\ de' = [p.d EXCEPT !.index = 0]
           /\ result' = p.res
    /\ UNCHANGED <<builder, ser, pc, stack>>

\* a short ASCII string not read before: a tiny ASCII value, or a short
\* ASCII key
RefIntern ==
    /\ pc = "de"
    /\ sent < MaxRefs
    /\ sent' = sent + 1
    /\ input' = None
    /\ RefRead(<<IF builder = "value" THEN 65 ELSE 129>> \o FreshString(sent))

\* a back-reference token
RefProbe(token) ==
    /\ pc = "de"
    /\ input' = Some([strings |-> Entries(de.shared_strings),
                      properties |-> Entries(de.shared_properties)])
    /\ RefRead(token)
    /\ UNCHANGED sent

NextRef ==
    \/ RefNew
    \/ RefIntern
    \/ \E token \in RefTokens : RefProbe(token)

SpecRef == InitRef /\ [][NextRef]_vars

\* C26: a back-reference token (value position 0x01-0x1F with index
\* lead-1, or 0xEC-0xEF and a low byte; key position 0x40-0x7F with index
\* lead-0x40, or 0x30-0x33 and a low byte) gives InvalidStringReference
\* whenever the cache of its position is not enabled by the header or the
\* index is not less than the number of entries of that cache; otherwise
\* it gives the string interned at that index, and it interns nothing.
C26_BackReference ==
    input # None =>
        LET cache == IF builder = "value" THEN de.shared_strings
                     ELSE de.shared_properties
            before == IF builder = "value" THEN input.v.strings
                      ELSE input.v.properties
            index == BackRefIndex(writer).v
        IN  /\ (~cache.some \/ index >= before) =>
                   result = Err("InvalidStringReference")
            /\ (cache.some /\ index < before) =>
                   result = Ok([tag |-> "str", v |-> FreshString(index)])
            /\ Entries(de.shared_strings) = input.v.strings
            /\ Entries(de.shared_properties) = input.v.properties

\* a long back-reference resolved in a cache of more than 256 entries
C26_Witness ==
    /\ input # None
    /\ builder = "key"
    /\ writer = <<49, 3>>
    /\ input.v.properties > 259
    /\ result = Ok([tag |-> "str", v |-> FreshString(259)])

-----------------------------------------------------------------------------
(* A session: a Builder is configured and built, the Serializer writes     *)
(* up to MaxWrites strings, keys and byte strings, and a Deserializer      *)
(* made over the finished output reads them back in order.                 *)

\* "", "hi", "\u{e9}" and a string too long for the caches
SessionStrings ==
    {<<>>, <<104, 105>>, <<195, 169>>, <<58, 41, 10>>, Repeat(97, 65)}
SessionKeys == {<<107>>, <<195, 169>>}
SessionBytes == {<<1>>}

\* one call of the Serializer: what was written, where, and the Serializer
\* before and after the call
Item(pos, v, before, w) ==
    [pos |-> pos, v |-> v, out |-> w.out, before |-> before, after |-> w.ser]

Init ==
    /\ pc = "builder"
    /\ builder = Serializer_builder
    /\ ser = Idle
    /\ writer = <<>>
    /\ de = Idle
    /\ input = None
    /\ sent = <<>>
    /\ result = None
    /\ stack = <<>>

SetRawBinary(b) ==
    /\ pc = "builder"
    /\ builder' = Builder_raw_binary(builder, b)
    /\ UNCHANGED <<stack, pc, ser, writer, de, input, sent, result>>

SetSharedStrings(b) ==
    /\ pc = "builder"
    /\ builder' = Builder_shared_strings(builder, b)
    /\ UNCHANGED <<stack, pc, ser, writer, de, input, sent, result>>

SetSharedProperties(b) ==
    /\ pc = "builder"
    /\ builder' = Builder_shared_properties(builder, b)
    /\ UNCHANGED <<stack, pc, ser, writer, de, input, sent, result>>

Build ==
    /\ pc = "builder"
    /\ \E w \in {Builder_build(builder)} :
           /\ ser' = w.ser
           /\ writer' = writer \o w.out
    /\ pc' = "ser"
    /\ UNCHANGED <<stack, builder, de, input, sent, result>>

SerializeStr(v) ==
    /\ pc = "ser"
    /\ Len(sent) < MaxWrites
    /\ \E w \in {serialize_str(ser, v)} :
           /\ ser' = w.ser
           /\ writer' = writer \o w.out
           /\ sent' = Append(sent, Item("value", v, ser, w))
    /\ UNCHANGED <<stack, pc, builder, de, input, result>>

SerializeKey(v) ==
    /\ pc = "ser"
    /\ Len(sent) < MaxWrites
    /\ \E w \in {serialize_maybe_static_str(ser, v)} :
           /\ ser' = w.ser
           /\ writer' = writer \o w.out
           /\ sent' = Append(sent, Item("key", v, ser, w))
    /\ UNCHANGED <<stack, pc, builder, de, input, result>>

SerializeBytes(v) ==
    /\ pc = "ser"
    /\ Len(sent) < MaxWrites
    /\ \E w \in {serialize_bytes(ser, v)} :
           /\ ser' = w.ser
           /\ writer' = writer \o w.out
           /\ sent' = Append(sent, Item("bytes", v, ser, w))
    /\ UNCHANGED <<stack, pc, builder, de, input, result>>

\* Serializer::end: the end-of-stream token; the Serializer is consumed
End ==
    /\ pc = "ser"
    /\ writer' = writer \o <<255>>
    /\ pc' = "ended"
    /\ UNCHANGED <<stack, builder, ser, de, input, sent, result>>

\* into_inner (or the writer end returned), then Deserializer::from_slice
\* over the output
FromSlice ==
    /\ pc \in {"ser", "ended"}
    /\ de' = Deserializer_new(writer).v
    /\ pc' = "de"
    /\ UNCHANGED <<stack, builder, ser, writer, input, sent, result>>

ParseValue ==
    /\ pc = "de"
    /\ sent # <<>>
    /\ Head(sent).pos \in {"value", "bytes"}
    /\ \E p \in {parse_value(de, writer)} :
           /\ de' = p.d
           /\ result' = p.res
           /\ pc' = IF p.res.ok THEN "de" ELSE "failed"
    /\ input' = Head(sent)
    /\ sent' = Tail(sent)
    /\ UNCHANGED <<stack, builder, ser, writer>>

ParseKey ==
    /\ pc = "de"
    /\ sent # <<>>
    /\ Head(sent).pos = "key"
    /\ \E p \in {parse_str(de, writer)} :
           /\ de' = p.d
           /\ result' = p.res
           /\ pc' = IF p.res.ok THEN "de" ELSE "failed"
    /\ input' = Head(sent)
    /\ sent' = Tail(sent)
    /\ UNCHANGED <<stack, builder, ser, writer>>

Next ==
    \/ \E b \in BOOLEAN : SetRawBinary(b)
    \/ \E b \in BOOLEAN : SetSharedStrings(b)
    \/ \E b \in BOOLEAN : SetSharedProperties(b)
    \/ Build
    \/ \E v \in SessionStrings : SerializeStr(v)
    \/ \E v \in SessionKeys : SerializeKey(v)
    \/ \E v \in SessionBytes : SerializeBytes(v)
    \/ End
    \/ FromSlice
    \/ ParseValue
    \/ ParseKey

Spec == Init /\ [][Next]_vars

\* the calls made so far that are still known: those not yet read back and
\* the one read back last
Items ==
    {sent[k] : k \in 1 .. Len(sent)} \cup (IF input = None THEN {} ELSE {input})

\* the back-reference to index i of the value-string cache
ValueBackRef(i) ==
    IF i <= 30 THEN <<1 + i>> ELSE <<236 + (i \div 256), i % 256>>

\* C7: with the value-string cache enabled, a non-empty string of at most
\* 64 bytes is written literally the first time and as a back-reference
\* to its index every later time (0x01+i for i <= 30, else 0xEC|(i>>8),
\* i&0xFF), and the decoder yields the same string for either form.
C7_SharedStringIdentity ==
    /\ \A x \in Items :
           (/\ x.pos = "value"
            /\ x.before.shared_strings.some
            /\ x.v # <<>> /\ Len(x.v) <= 64) =>
               LET cache == x.before.shared_strings.v
               IN  IF x.v \in DOMAIN cache
                   THEN x.out = ValueBackRef(cache[x.v])
                   ELSE /\ x.out[1] >= 64
                        /\ Tail(x.out) = x.v
    /\ (/\ input # None
        /\ input.pos = "value"
        /\ input.before.shared_strings.some
        /\ input.v # <<>> /\ Len(input.v) <= 64) =>
           result = Ok([tag |-> "str", v |-> input.v])

\* the encoder's map and the decoder's vector hold the same strings at the
\* same indexes
Agree(e, d) ==
    /\ e.some <=> d.some
    /\ e.some =>
           /\ Cardinality(DOMAIN e.v) = Len(d.v)
           /\ \A s \in DOMAIN e.v : e.v[s] < Len(d.v) /\ d.v[e.v[s] + 1] = s

\* the call x put v in the encoder cache named by field
Interned(x, field) ==
    /\ x.before[field].some
    /\ x.v \notin DOMAIN x.before[field].v
    /\ x.v \in DOMAIN x.after[field].v

\* the call x wrote v literally: neither the empty token nor a back-reference
Literal(x) ==
    /\ Len(x.out) > Len(x.v)
    /\ x.v # <<>>

\* C8: both caches start empty; after each token the decoder has read, its
\* caches hold the same strings at the same indexes as the encoder's held
\* after writing that token; a string is interned exactly when it is on
\* the wire literally with at most 64 bytes.
C8_CachesInLockstep ==
    /\ pc = "ser" /\ sent = <<>> =>
           /\ ser.shared_strings.some => ser.shared_strings.v = EmptyMap
           /\ ser.shared_properties.some => ser.shared_properties.v = EmptyMap
    /\ pc = "de" /\ input = None =>
           /\ de.shared_strings.some => de.shared_strings.v = EmptyVec
           /\ de.shared_properties.some => de.shared_properties.v = EmptyVec
    /\ \A x \in Items :
           /\ x.pos = "value" /\ x.before.shared_strings.some =>
                  (Interned(x, "shared_strings") <=> Literal(x) /\ Len(x.v) <= 64)
           /\ x.pos = "key" /\ x.before.shared_properties.some =>
                  (Interned(x, "shared_properties") <=> Literal(x) /\ Len(x.v) <= 64)
    /\ (input # None /\ result.ok) =>
           /\ Agree(input.after.shared_strings, de.shared_strings)
           /\ Agree(input.after.shared_properties, de.shared_properties)

\* the bytes the calls in items wrote, in call order
RECURSIVE TokensOf(_)
TokensOf(items) ==
    IF items = <<>> THEN <<>> ELSE Head(items).out \o TokensOf(Tail(items))

C10_DefaultConfiguration ==
    ~builder.touched =>
        /\ ~builder.raw_binary
        /\ ~builder.shared_strings
        /\ builder.shared_properties
        /\ pc # "builder" =>
               /\ SubSeq(writer, 1, 4) = <<58, 41, 10, 1>>
               /\ ~ser.raw_binary
               /\ ~ser.shared_strings.some
               /\ ser.shared_properties.some
        /\ \A x \in Items : x.pos = "bytes" => x.out[1] = 232

====
